---- MODULE Spec2Model ----
(***************************************************************************)
(* Economic reconciliation engine of rtk (src/src/cc_economics.rs):        *)
(* the period key normalizer (convert_saturday_to_monday), the metrics     *)
(* merger (merge_daily / merge_weekly / merge_monthly), the dual-metric    *)
(* calculator (PeriodEconomics::compute_dual_metrics) and the totals       *)
(* aggregator (compute_totals).                                            *)
(*                                                                         *)
(* Conventions.  A Rust String is a sequence of one-character strings,     *)
(* compared bytewise through CharCode.  Option<T> is a sequence of length  *)
(* at most one: None is << >>, Some(x) is <<x>>.  An f64 is modelled as    *)
(* an exact rational [num, den] in lowest terms (rounding is not           *)
(* modelled); token counts are naturals far below the 64-bit width.        *)
(***************************************************************************)
EXTENDS Integers, Sequences, FiniteSets, TLC

VARIABLES
    pc,        \* position of the running operation
    saturday,  \* convert_saturday_to_monday: the argument
    monday,    \* convert_saturday_to_monday: the returned Option<String>
    period,    \* compute_dual_metrics: the record it mutates
    gran,      \* merge: "day" | "week" | "month" (which merge_* runs)
    cc,        \* merge: Option<Vec<CcusagePeriod>>
    rtk,       \* merge: Vec<DayStats | WeekStats | MonthStats>
    map,       \* merge: the HashMap<String, PeriodEconomics>
    idx,       \* merge: number of entries of the current loop already consumed
    result,    \* merge: the Vec<PeriodEconomics> being built / returned
    warnings,  \* merge: the week_start texts reported on stderr
    periods,   \* compute_totals: the slice it is given
    totals,    \* compute_totals: the Totals being accumulated (with pct_sum, pct_count)
    ti,        \* compute_totals: number of periods already folded in
    flags,     \* export: the arguments daily, weekly, monthly, all and format
    sources,   \* export: what ccusage::fetch and the tracker return, per granularity
    export,    \* export_json: the Export struct being filled
    stdout,    \* export: the lines printed so far
    ret,       \* export: "none" while running, then "Ok" or the error's context
    calls      \* export: the collaborator calls made so far, in order

vars == <<pc, saturday, monday, period, gran, cc, rtk, map, idx, result, warnings, periods, totals, ti,
          flags, sources, export, stdout, ret, calls>>

convVars == <<saturday, monday>>
dualVars == <<period>>
mergeVars == <<gran, cc, rtk, map, idx, result, warnings>>
totalsVars == <<periods, totals, ti>>
exportVars == <<flags, sources, export, stdout, ret, calls>>

-----------------------------------------------------------------------------
(* Option<T> *)

None == << >>

Some(x) == <<x>>

IsSome(o) == o # << >>

IsNone(o) == o = << >>

Unwrap(o) == o[1]

-----------------------------------------------------------------------------
(* Strings: sequences of characters, ordered bytewise (str::cmp). *)

Alphabet == <<" ", "+", "-", "0", "1", "2", "3", "4", "5", "6", "7", "8", "9",
              "a", "d", "i", "l", "n", "v">>

Digits == <<"0", "1", "2", "3", "4", "5", "6", "7", "8", "9">>

\* Rank of a character in byte order (order-isomorphic to its ASCII code).
CharCode(c) == CHOOSE i \in 1..Len(Alphabet) : Alphabet[i] = c

IsDigit(c) == \E i \in 1..Len(Digits) : Digits[i] = c

DigitVal(c) == (CHOOSE i \in 1..Len(Digits) : Digits[i] = c) - 1

DigitChar(n) == Digits[n + 1]

RECURSIVE StrCmp(_, _)
\* a.label.cmp(&b.label): -1, 0, 1 for Less, Equal, Greater.
StrCmp(a, b) ==
    IF a = << >> /\ b = << >> THEN 0
    ELSE IF a = << >> THEN -1
    ELSE IF b = << >> THEN 1
    ELSE IF CharCode(Head(a)) < CharCode(Head(b)) THEN -1
    ELSE IF CharCode(Head(a)) > CharCode(Head(b)) THEN 1
    ELSE StrCmp(Tail(a), Tail(b))

StrLess(a, b) == StrCmp(a, b) < 0

-----------------------------------------------------------------------------
(* Calendar dates (chrono::NaiveDate), as [y, m, d]. *)

IsLeap(y) == (y % 4 = 0 /\ y % 100 # 0) \/ y % 400 = 0

DaysInMonth(y, m) ==
    IF m = 2 THEN (IF IsLeap(y) THEN 29 ELSE 28)
    ELSE IF m \in {4, 6, 9, 11} THEN 30
    ELSE 31

ValidDate(y, m, d) == m \in 1..12 /\ d >= 1 /\ d <= DaysInMonth(y, m)

\* SuccDate without the carry into the next month.
SuccDate_no_carry(dt) == [dt EXCEPT !.d = dt.d + 1]

\* The day after dt.
SuccDate(dt) ==
    IF dt.d < DaysInMonth(dt.y, dt.m) THEN [dt EXCEPT !.d = dt.d + 1]
    ELSE IF dt.m < 12 THEN [y |-> dt.y, m |-> dt.m + 1, d |-> 1]
    ELSE [y |-> dt.y + 1, m |-> 1, d |-> 1]

RECURSIVE AddDays(_, _)
\* sat_date + TimeDelta::try_days(n), n >= 0.
AddDays(dt, n) == IF n = 0 THEN dt ELSE AddDays(SuccDate(dt), n - 1)

RECURSIVE TrimStart(_)
\* str::trim_start, applied by chrono before every numeric item.
TrimStart(s) == IF s # << >> /\ Head(s) = " " THEN TrimStart(Tail(s)) ELSE s

RECURSIVE ScanNumber(_, _, _, _)
\* chrono scan::number(s, 1, max): the longest prefix of at most max digits.
\* Returns [ok, val, rest]; acc and n carry the value and digit count so far.
ScanNumber(s, max, acc, n) ==
    IF s # << >> /\ IsDigit(Head(s)) /\ n < max
    THEN ScanNumber(Tail(s), max, acc * 10 + DigitVal(Head(s)), n + 1)
    ELSE [ok |-> n >= 1, val |-> acc, rest |-> s]

\* The %Y item: an explicit sign lifts the four-digit limit.
ScanYear(s) ==
    LET t == TrimStart(s) IN
    IF t # << >> /\ Head(t) = "-"
    THEN LET r == ScanNumber(Tail(t), Len(t), 0, 0) IN [r EXCEPT !.val = 0 - r.val]
    ELSE IF t # << >> /\ Head(t) = "+" THEN ScanNumber(Tail(t), Len(t), 0, 0)
    ELSE ScanNumber(t, 4, 0, 0)

\* The literal "-" of the format string.
ScanDash(s) == [ok |-> s # << >> /\ Head(s) = "-", rest |-> IF s = << >> THEN s ELSE Tail(s)]

\* NaiveDate::parse_from_str(s, "%Y-%m-%d").ok(): None unless the whole input is
\* year, "-", month, "-", day and names a day of the calendar.
ParseDate(s) ==
    LET yr == ScanYear(s)
        d1 == ScanDash(yr.rest)
        mo == ScanNumber(TrimStart(d1.rest), 2, 0, 0)
        d2 == ScanDash(mo.rest)
        dy == ScanNumber(TrimStart(d2.rest), 2, 0, 0)
    IN  IF yr.ok /\ d1.ok /\ mo.ok /\ d2.ok /\ dy.ok /\ dy.rest = << >>
           /\ ValidDate(yr.val, mo.val, dy.val)
        THEN Some([y |-> yr.val, m |-> mo.val, d |-> dy.val])
        ELSE None

RECURSIVE NatToStr(_)
\* Decimal digits of a natural number, no padding.
NatToStr(n) == IF n < 10 THEN <<DigitChar(n)>> ELSE NatToStr(n \div 10) \o <<DigitChar(n % 10)>>

RECURSIVE PadZero(_, _)
\* Left-pad with "0" to the given width.
PadZero(s, width) == IF Len(s) >= width THEN s ELSE PadZero(<<"0">> \o s, width)

\* The %Y item on output: four digits, or an explicit sign outside 0..9999.
FormatYear(y) ==
    IF y >= 0 /\ y < 10000 THEN PadZero(NatToStr(y), 4)
    ELSE IF y < 0 THEN <<"-">> \o PadZero(NatToStr(0 - y), 4)
    ELSE <<"+">> \o PadZero(NatToStr(y), 4)

\* monday.format("%Y-%m-%d").to_string()
FormatDate(dt) ==
    FormatYear(dt.y) \o <<"-">> \o PadZero(NatToStr(dt.m), 2) \o <<"-">> \o PadZero(NatToStr(dt.d), 2)

\* Saturday + 2 days = Monday.
WeekShift == 2

convert_saturday_to_monday(s) ==
    LET sat_date == ParseDate(s) IN
    IF IsNone(sat_date) THEN None
    ELSE Some(FormatDate(AddDays(Unwrap(sat_date), WeekShift)))

-----------------------------------------------------------------------------
(* f64 as exact rationals [num, den], den > 0, in lowest terms. *)

RECURSIVE GCD(_, _)
GCD(a, b) == IF b = 0 THEN a ELSE GCD(b, a % b)

\* A zero denominator is kept as the non-finite value IEEE division yields
\* (x / 0 = inf as [1, 0], 0 / 0 = NaN as [0, 0]).
Rat(n, d) ==
    IF d = 0 THEN [num |-> IF n = 0 THEN 0 ELSE 1, den |-> 0]
    ELSE LET g == GCD(n, d) IN [num |-> n \div g, den |-> d \div g]

IsFinite(x) == x.den > 0

\* `x as f64`
F64(n) == [num |-> n, den |-> 1]

Zero == F64(0)

FAdd(a, b) == Rat(a.num * b.den + b.num * a.den, a.den * b.den)

FMul(a, b) == Rat(a.num * b.num, a.den * b.den)

\* a / b for b > 0
FDiv(a, b) == Rat(a.num * b.den, a.den * b.num)

-----------------------------------------------------------------------------
(* PeriodEconomics *)

\* new() with the numeric fields defaulted to zero instead of None.
new_zero_filled(label) ==
    [ label |-> label,
      cc_cost |-> Some(Zero), cc_total_tokens |-> Some(0), cc_active_tokens |-> Some(0),
      rtk_commands |-> Some(0), rtk_saved_tokens |-> Some(0), rtk_savings_pct |-> Some(Zero),
      blended_cpt |-> None, active_cpt |-> None,
      savings_blended |-> None, savings_active |-> None ]

new(label) ==
    [ label |-> label,
      cc_cost |-> None, cc_total_tokens |-> None, cc_active_tokens |-> None,
      rtk_commands |-> None, rtk_saved_tokens |-> None, rtk_savings_pct |-> None,
      blended_cpt |-> None, active_cpt |-> None,
      savings_blended |-> None, savings_active |-> None ]

\* set_ccusage counting the cache tokens among the active tokens.
set_ccusage_active_with_cache(self, metrics) ==
    [self EXCEPT !.cc_cost = Some(metrics.total_cost),
                 !.cc_total_tokens = Some(metrics.total_tokens),
                 !.cc_active_tokens = Some(metrics.input_tokens + metrics.output_tokens
                                           + metrics.cache_creation_tokens
                                           + metrics.cache_read_tokens)]

set_ccusage(self, metrics) ==
    [self EXCEPT !.cc_cost = Some(metrics.total_cost),
                 !.cc_total_tokens = Some(metrics.total_tokens),
                 !.cc_active_tokens = Some(metrics.input_tokens + metrics.output_tokens)]

set_rtk_from_day(self, stats) ==
    [self EXCEPT !.rtk_commands = Some(stats.commands),
                 !.rtk_saved_tokens = Some(stats.saved_tokens),
                 !.rtk_savings_pct = Some(stats.savings_pct)]

\* set_rtk_from_week recomputing the percentage the way set_rtk_from_month does.
set_rtk_from_week_recomputed(self, stats) ==
    [self EXCEPT !.rtk_commands = Some(stats.commands),
                 !.rtk_saved_tokens = Some(stats.saved_tokens),
                 !.rtk_savings_pct =
                     Some(IF stats.input_tokens + stats.output_tokens > 0
                          THEN FMul(FDiv(F64(stats.saved_tokens),
                                         F64(stats.saved_tokens + stats.input_tokens + stats.output_tokens)),
                                    F64(100))
                          ELSE Zero)]

set_rtk_from_week(self, stats) ==
    [self EXCEPT !.rtk_commands = Some(stats.commands),
                 !.rtk_saved_tokens = Some(stats.saved_tokens),
                 !.rtk_savings_pct = Some(stats.savings_pct)]

set_rtk_from_month(self, stats) ==
    [self EXCEPT !.rtk_commands = Some(stats.commands),
                 !.rtk_saved_tokens = Some(stats.saved_tokens),
                 !.rtk_savings_pct =
                     Some(IF stats.input_tokens + stats.output_tokens > 0
                          THEN FMul(FDiv(F64(stats.saved_tokens),
                                         F64(stats.saved_tokens + stats.input_tokens + stats.output_tokens)),
                                    F64(100))
                          ELSE Zero)]

\* BlendedMetrics without the `total > 0` test.
BlendedMetrics_unguarded(self, cost, saved) ==
    IF IsSome(self.cc_total_tokens)
    THEN LET total == Unwrap(self.cc_total_tokens) IN
         [self EXCEPT !.blended_cpt = Some(FDiv(cost, F64(total))),
                      !.savings_blended = Some(FMul(F64(saved), FDiv(cost, F64(total))))]
    ELSE self

\* The blended half of compute_dual_metrics (cost / total_tokens including cache).
BlendedMetrics(self, cost, saved) ==
    IF IsSome(self.cc_total_tokens) /\ Unwrap(self.cc_total_tokens) > 0
    THEN LET total == Unwrap(self.cc_total_tokens) IN
         [self EXCEPT !.blended_cpt = Some(FDiv(cost, F64(total))),
                      !.savings_blended = Some(FMul(F64(saved), FDiv(cost, F64(total))))]
    ELSE self

\* ActiveMetrics dividing by the total token count (the blended code pasted).
ActiveMetrics_by_total(self, cost, saved) ==
    IF IsSome(self.cc_total_tokens) /\ Unwrap(self.cc_total_tokens) > 0
    THEN LET total == Unwrap(self.cc_total_tokens) IN
         [self EXCEPT !.active_cpt = Some(FDiv(cost, F64(total))),
                      !.savings_active = Some(FMul(F64(saved), FDiv(cost, F64(total))))]
    ELSE self

\* The active half of compute_dual_metrics (cost / active_tokens = input+output only).
ActiveMetrics(self, cost, saved) ==
    IF IsSome(self.cc_active_tokens) /\ Unwrap(self.cc_active_tokens) > 0
    THEN LET active == Unwrap(self.cc_active_tokens) IN
         [self EXCEPT !.active_cpt = Some(FDiv(cost, F64(active))),
                      !.savings_active = Some(FMul(F64(saved), FDiv(cost, F64(active))))]
    ELSE self

\* compute_dual_metrics computing the two rates from the spend side alone and
\* the savings values only when savings_tokens is present.
compute_dual_metrics_rates_without_savings(self) ==
    IF IsSome(self.cc_cost)
    THEN LET cost == Unwrap(self.cc_cost)
             withRates == ActiveMetrics(BlendedMetrics(self, cost, 0), cost, 0)
         IN  IF IsSome(self.rtk_saved_tokens)
             THEN ActiveMetrics(BlendedMetrics(self, cost, Unwrap(self.rtk_saved_tokens)),
                                cost, Unwrap(self.rtk_saved_tokens))
             ELSE [withRates EXCEPT !.savings_blended = None, !.savings_active = None]
    ELSE self

\* compute_dual_metrics taking a missing savings_tokens as 0 (unwrap_or(0)).
compute_dual_metrics_unwrap_or(self) ==
    IF IsSome(self.cc_cost)
    THEN LET cost == Unwrap(self.cc_cost)
             saved == IF IsSome(self.rtk_saved_tokens) THEN Unwrap(self.rtk_saved_tokens) ELSE 0
         IN  ActiveMetrics(BlendedMetrics(self, cost, saved), cost, saved)
    ELSE self

compute_dual_metrics(self) ==
    IF IsSome(self.cc_cost) /\ IsSome(self.rtk_saved_tokens)
    THEN LET cost == Unwrap(self.cc_cost)
             saved == Unwrap(self.rtk_saved_tokens)
         IN  ActiveMetrics(BlendedMetrics(self, cost, saved), cost, saved)
    ELSE self

-----------------------------------------------------------------------------
(* Inputs of the normalizer. *)

SampleYears == {2023, 2024, 2025, 2026, 2100}

SampleMonths == {1, 2, 4, 12}

SampleDays == {1, 17, 18, 27, 28, 29, 30, 31}

\* Zero-padded YYYY-MM-DD texts, whether or not they name a calendar day.
DateTexts ==
    { FormatDate([y |-> y, m |-> m, d |-> d]) : y \in SampleYears, m \in SampleMonths, d \in SampleDays }

Str_invalid == <<"i", "n", "v", "a", "l", "i", "d">>

\* Other texts a ledger row could carry: not dates, or dates written loosely.
OddTexts ==
    { Str_invalid,
      << >>,
      <<"2", "0", "2", "6", "-", "0", "1">>,
      <<"2", "0", "2", "6", "-", "1", "3", "-", "0", "1">>,
      <<"2", "0", "2", "6", "-", "0", "1", "-", "1", "8", "0">>,
      <<"2", "0", "2", "6", "0", "-", "0", "1", "-", "1", "8">>,
      <<"2", "0", "2", "6", "-", "0", "1", "-">>,
      <<"2", "0", "2", "5", "-", "1", "-", "5">>,
      <<" ", "2", "0", "2", "5", "-", "1", "2", "-", "3", "1">> }

ConvertInputs == DateTexts \cup OddTexts

-----------------------------------------------------------------------------
(* Idle values of the variables an operation does not use. *)

IdleConv == saturday = << >> /\ monday = None

IdleDual == period = << >>

IdleMerge ==
    /\ gran = "none" /\ cc = None /\ rtk = << >> /\ map = << >> /\ idx = 0
    /\ result = << >> /\ warnings = << >>

IdleTotals == periods = << >> /\ totals = << >> /\ ti = 0

IdleExport ==
    /\ flags = << >> /\ sources = << >> /\ export = << >> /\ stdout = << >> /\ ret = "none"
    /\ calls = << >>

-----------------------------------------------------------------------------
(* Specification of convert_saturday_to_monday. *)

InitConvert ==
    /\ pc = "convert"
    /\ saturday \in ConvertInputs
    /\ monday = None
    /\ IdleDual /\ IdleMerge /\ IdleTotals /\ IdleExport

Convert ==
    /\ pc = "convert"
    /\ monday' = convert_saturday_to_monday(saturday)
    /\ pc' = "converted"
    /\ UNCHANGED <<saturday, dualVars, mergeVars, totalsVars, exportVars>>

NextConvert == Convert

SpecConvert == InitConvert /\ [][NextConvert]_vars
-----------------------------------------------------------------------------
(* Specification of compute_dual_metrics on a record built by new() and   *)
(* field assignment, as the unit tests build it.                          *)

Str_2026_01 == <<"2", "0", "2", "6", "-", "0", "1">>

SampleCosts == {Zero, Rat(1234, 100), F64(100)}

SampleTokens == {0, 1800, 1000000}

SampleActive == {0, 1500}

SampleSaved == {0, 5000}

Opt(S) == {None} \cup {Some(x) : x \in S}

DualInputs ==
    { [new(Str_2026_01) EXCEPT !.cc_cost = c, !.cc_total_tokens = t,
                               !.cc_active_tokens = a, !.rtk_saved_tokens = s] :
        c \in Opt(SampleCosts), t \in Opt(SampleTokens), a \in Opt(SampleActive), s \in Opt(SampleSaved) }

InitDual ==
    /\ pc = "dual"
    /\ period \in DualInputs
    /\ IdleConv /\ IdleMerge /\ IdleTotals /\ IdleExport

ComputeDualMetrics ==
    /\ pc = "dual"
    /\ period' = compute_dual_metrics(period)
    /\ pc' = "dual_done"
    /\ UNCHANGED <<convVars, mergeVars, totalsVars, exportVars>>

NextDual == ComputeDualMetrics

SpecDual == InitDual /\ [][NextDual]_vars

-----------------------------------------------------------------------------
(* The metrics merger: merge_daily, merge_weekly, merge_monthly.  The three *)
(* functions differ only in the savings loop; gran selects among them.     *)

\* map.entry(key).or_insert_with(|| PeriodEconomics::new(&key)): the record
\* stored under key, created empty when the key is new.
Entry(m, key) == IF key \in DOMAIN m THEN m[key] ELSE new(key)

\* The map with rec stored under key.
Put(m, key, rec) == [k \in DOMAIN m \cup {key} |-> IF k = key THEN rec ELSE m[k]]

\* InsertCcEntry starting from an empty map at every entry (the HashMap
\* created inside the loop), so that only the last spend entry survives.
InsertCcEntry_new_map_each_time(m, entry) ==
    Put(<< >>, entry.key, set_ccusage(new(entry.key), entry.metrics))

\* InsertCcEntry keeping the first spend entry of a key (a later entry of the
\* same key is dropped).
InsertCcEntry_keep_first(m, entry) ==
    IF entry.key \in DOMAIN m /\ IsSome(m[entry.key].cc_cost) THEN m
    ELSE Put(m, entry.key, set_ccusage(Entry(m, entry.key), entry.metrics))

\* Body of `for entry in cc_data`.
InsertCcEntry(m, entry) == Put(m, entry.key, set_ccusage(Entry(m, entry.key), entry.metrics))

\* RtkKey falling back to the raw week_start when it does not convert.
RtkKey_raw_fallback(g, entry) ==
    IF g = "week" /\ IsSome(convert_saturday_to_monday(entry.key))
    THEN convert_saturday_to_monday(entry.key)
    ELSE Some(entry.key)

\* The key a savings entry is merged under: date and month are used as they
\* are, week_start goes through convert_saturday_to_monday (None: skipped).
RtkKey(g, entry) == IF g = "week" THEN convert_saturday_to_monday(entry.key) ELSE Some(entry.key)

\* set_rtk that also fills a missing spend side with zeros.
set_rtk_zero_spend(g, self, stats) ==
    LET filled == IF IsNone(self.cc_cost)
                  THEN [self EXCEPT !.cc_cost = Some(Zero), !.cc_total_tokens = Some(0),
                                    !.cc_active_tokens = Some(0)]
                  ELSE self
    IN  IF g = "day" THEN set_rtk_from_day(filled, stats)
        ELSE IF g = "week" THEN set_rtk_from_week(filled, stats)
        ELSE set_rtk_from_month(filled, stats)

set_rtk(g, self, stats) ==
    IF g = "day" THEN set_rtk_from_day(self, stats)
    ELSE IF g = "week" THEN set_rtk_from_week(self, stats)
    ELSE set_rtk_from_month(self, stats)

\* InsertRtkEntry storing a fresh record under the key (insert() in place of
\* entry().or_insert_with()), dropping what the spend loop had stored there.
InsertRtkEntry_fresh_record(g, m, entry) ==
    LET key == RtkKey(g, entry) IN
    IF IsNone(key) THEN m
    ELSE Put(m, Unwrap(key), set_rtk(g, new(Unwrap(key)), entry))

\* InsertRtkEntry updating only the records the spend loop created (get_mut
\* in place of entry().or_insert_with()).
InsertRtkEntry_existing_only(g, m, entry) ==
    LET key == RtkKey(g, entry) IN
    IF IsNone(key) \/ Unwrap(key) \notin DOMAIN m THEN m
    ELSE Put(m, Unwrap(key), set_rtk(g, m[Unwrap(key)], entry))

\* Body of `for entry in rtk`.
InsertRtkEntry(g, m, entry) ==
    LET key == RtkKey(g, entry) IN
    IF IsNone(key) THEN m
    ELSE Put(m, Unwrap(key), set_rtk(g, Entry(m, Unwrap(key)), entry))

\* The orders in which map.into_values() may yield the records.
ValueOrders(m) ==
    LET n == Cardinality(DOMAIN m)
        orders == { f \in [1..n -> DOMAIN m] : \A i, j \in 1..n : i # j => f[i] # f[j] }
    IN  { [i \in 1..n |-> m[f[i]]] : f \in orders }

\* `for period in &mut result { period.compute_dual_metrics(); }`
ComputeAll(ps) == [i \in 1..Len(ps) |-> compute_dual_metrics(ps[i])]

RECURSIVE InsertSorted_by_year(_, _)
\* InsertSorted comparing only the year the labels start with.
InsertSorted_by_year(x, s) ==
    IF s = << >> THEN <<x>>
    ELSE IF StrCmp(SubSeq(x.label, 1, 4), SubSeq(Head(s).label, 1, 4)) < 0 THEN <<x>> \o s
    ELSE <<Head(s)>> \o InsertSorted_by_year(x, Tail(s))

RECURSIVE InsertSorted(_, _)
\* x placed behind every element whose label is not greater (stable).
InsertSorted(x, s) ==
    IF s = << >> THEN <<x>>
    ELSE IF StrCmp(x.label, Head(s).label) < 0 THEN <<x>> \o s
    ELSE <<Head(s)>> \o InsertSorted(x, Tail(s))

\* The sort left out.
sort_by_label_omitted(s) == s

RECURSIVE sort_by_label(_)
\* result.sort_by(|a, b| a.label.cmp(&b.label)): a stable sort.
sort_by_label(s) ==
    IF s = << >> THEN << >>
    ELSE InsertSorted(s[Len(s)], sort_by_label(SubSeq(s, 1, Len(s) - 1)))

RECURSIVE FoldCc(_, _)
FoldCc(m, s) == IF s = << >> THEN m ELSE FoldCc(InsertCcEntry(m, Head(s)), Tail(s))

RECURSIVE FoldRtk(_, _, _)
FoldRtk(g, m, s) == IF s = << >> THEN m ELSE FoldRtk(g, InsertRtkEntry(g, m, Head(s)), Tail(s))

\* The map a whole merge builds from its two arguments.
MergedMap(g, c, r) == FoldRtk(g, IF IsSome(c) THEN FoldCc(<< >>, Unwrap(c)) ELSE << >>, r)

\* The list merge_daily / merge_weekly / merge_monthly returns (the sort makes
\* it the same for every order the map yields its values in).
merge(g, c, r) == sort_by_label(ComputeAll(CHOOSE ps \in ValueOrders(MergedMap(g, c, r)) : TRUE))

-----------------------------------------------------------------------------
(* Inputs of the merger. *)

MaxEntries == 3

Grans == {"day", "week", "month"}

MonthText(y, m) == FormatYear(y) \o <<"-">> \o PadZero(NatToStr(m), 2)

Str_2026_1_18 == <<"2", "0", "2", "6", "-", "1", "-", "1", "8">>

\* Keys of the spend ledger (weeks by their ISO Monday).
CcKeys(g) ==
    IF g = "day" THEN { FormatDate([y |-> 2026, m |-> 1, d |-> 18]),
                        FormatDate([y |-> 2025, m |-> 12, d |-> 31]) }
    ELSE IF g = "week" THEN { FormatDate([y |-> 2026, m |-> 1, d |-> 20]),
                              FormatDate([y |-> 2026, m |-> 1, d |-> 13]) }
    ELSE { MonthText(2026, 1), MonthText(2026, 3), MonthText(2025, 12) }

\* Keys of the savings ledger (weeks by their legacy Saturday start; a week_start
\* may be unparseable, or written without zero padding).
RtkKeys(g) ==
    IF g = "week" THEN { FormatDate([y |-> 2026, m |-> 1, d |-> 18]),
                         FormatDate([y |-> 2025, m |-> 12, d |-> 30]),
                         Str_2026_1_18,
                         Str_invalid }
    ELSE CcKeys(g)

\* The spec's example, a cache-only period, an all-zero period.
SampleMetrics ==
    { [input_tokens |-> 1000, output_tokens |-> 500, cache_creation_tokens |-> 100,
       cache_read_tokens |-> 200, total_tokens |-> 1800, total_cost |-> Rat(1234, 100)],
      [input_tokens |-> 0, output_tokens |-> 0, cache_creation_tokens |-> 300,
       cache_read_tokens |-> 400, total_tokens |-> 700, total_cost |-> Rat(1, 2)],
      [input_tokens |-> 0, output_tokens |-> 0, cache_creation_tokens |-> 0,
       cache_read_tokens |-> 0, total_tokens |-> 0, total_cost |-> Zero] }

\* The spec's example and an all-zero period.
SampleStats ==
    { [commands |-> 10, input_tokens |-> 800, output_tokens |-> 400,
       saved_tokens |-> 5000, savings_pct |-> F64(50)],
      [commands |-> 0, input_tokens |-> 0, output_tokens |-> 0,
       saved_tokens |-> 0, savings_pct |-> Zero] }

\* CcusagePeriod { key, metrics }
CcEntries(g) == { [key |-> k, metrics |-> mt] : k \in CcKeys(g), mt \in SampleMetrics }

\* DayStats / WeekStats / MonthStats; key is its date, week_start or month.
RtkEntries(g) ==
    { [key |-> k, commands |-> st.commands, input_tokens |-> st.input_tokens,
       output_tokens |-> st.output_tokens, saved_tokens |-> st.saved_tokens,
       savings_pct |-> st.savings_pct] : k \in RtkKeys(g), st \in SampleStats }

Seqs(S, n) == [1..n -> S]

-----------------------------------------------------------------------------
(* Specification of one merge call. *)

Init ==
    /\ pc = "merge_cc"
    /\ gran \in Grans
    /\ \E n \in 0..MaxEntries :
           /\ cc \in (IF n = 0 THEN {None} ELSE {}) \cup { Some(s) : s \in Seqs(CcEntries(gran), n) }
           /\ rtk \in UNION { Seqs(RtkEntries(gran), k) : k \in 0..(MaxEntries - n) }
    /\ map = << >>
    /\ idx = 0
    /\ result = << >>
    /\ warnings = << >>
    /\ IdleConv /\ IdleDual /\ IdleTotals /\ IdleExport

\* One iteration of `for entry in cc_data`.
MergeCc ==
    /\ pc = "merge_cc"
    /\ IsSome(cc)
    /\ idx < Len(Unwrap(cc))
    /\ map' = InsertCcEntry(map, Unwrap(cc)[idx + 1])
    /\ idx' = idx + 1
    /\ UNCHANGED <<pc, gran, cc, rtk, result, warnings, convVars, dualVars, totalsVars, exportVars>>

\* cc is None, or its entries are exhausted.
MergeCcEnd ==
    /\ pc = "merge_cc"
    /\ idx = (IF IsSome(cc) THEN Len(Unwrap(cc)) ELSE 0)
    /\ pc' = "merge_rtk"
    /\ idx' = 0
    /\ UNCHANGED <<gran, cc, rtk, map, result, warnings, convVars, dualVars, totalsVars, exportVars>>

\* One iteration of `for entry in rtk`; merge_weekly reports and skips an entry
\* whose week_start does not convert.
MergeRtk ==
    /\ pc = "merge_rtk"
    /\ idx < Len(rtk)
    /\ map' = InsertRtkEntry(gran, map, rtk[idx + 1])
    /\ warnings' = IF IsNone(RtkKey(gran, rtk[idx + 1]))
                   THEN Append(warnings, rtk[idx + 1].key)
                   ELSE warnings
    /\ idx' = idx + 1
    /\ UNCHANGED <<pc, gran, cc, rtk, result, convVars, dualVars, totalsVars, exportVars>>

MergeRtkEnd ==
    /\ pc = "merge_rtk"
    /\ idx = Len(rtk)
    /\ pc' = "collect"
    /\ UNCHANGED <<gran, cc, rtk, map, idx, result, warnings, convVars, dualVars, totalsVars, exportVars>>

\* map.into_values().collect(): the records, in an order the hash map decides.
Collect ==
    /\ pc = "collect"
    /\ result' \in ValueOrders(map)
    /\ pc' = "metrics"
    /\ UNCHANGED <<gran, cc, rtk, map, idx, warnings, convVars, dualVars, totalsVars, exportVars>>

ComputeMetrics ==
    /\ pc = "metrics"
    /\ result' = ComputeAll(result)
    /\ pc' = "sort"
    /\ UNCHANGED <<gran, cc, rtk, map, idx, warnings, convVars, dualVars, totalsVars, exportVars>>

Sort ==
    /\ pc = "sort"
    /\ result' = sort_by_label(result)
    /\ pc' = "merged"
    /\ UNCHANGED <<gran, cc, rtk, map, idx, warnings, convVars, dualVars, totalsVars, exportVars>>

Next == MergeCc \/ MergeCcEnd \/ MergeRtk \/ MergeRtkEnd \/ Collect \/ ComputeMetrics \/ Sort

Spec == Init /\ [][Next]_vars

-----------------------------------------------------------------------------
(* Specification of one set_rtk_from_day / _week / _month call: gran is the *)
(* setter called, rtk holds the one ledger entry handed to it and period   *)
(* the record it updates, fresh or with the spend side already set.        *)

StatsInputs ==
    { [commands |-> c, input_tokens |-> i, output_tokens |-> o, saved_tokens |-> s,
       savings_pct |-> p] :
          c \in {0, 10}, i \in {0, 800}, o \in {0, 400}, s \in {0, 5000}, p \in {Zero, F64(50)} }

InitSetRtk ==
    /\ pc = "set_rtk"
    /\ gran \in Grans
    /\ rtk \in Seqs(StatsInputs, 1)
    /\ period \in { new(Str_2026_01) } \cup
                  { set_ccusage(new(Str_2026_01), mt) : mt \in SampleMetrics }
    /\ cc = None /\ map = << >> /\ idx = 0 /\ result = << >> /\ warnings = << >>
    /\ IdleConv /\ IdleTotals /\ IdleExport

SetRtk ==
    /\ pc = "set_rtk"
    /\ period' = set_rtk(gran, period, rtk[1])
    /\ pc' = "rtk_set"
    /\ UNCHANGED <<gran, cc, rtk, map, idx, result, warnings, convVars, totalsVars, exportVars>>

NextSetRtk == SetRtk

SpecSetRtk == InitSetRtk /\ [][NextSetRtk]_vars

-----------------------------------------------------------------------------
(* The totals aggregator: compute_totals. *)

\* The Totals it starts from, with the locals pct_sum and pct_count.
TotalsInit ==
    [ cc_cost |-> Zero, cc_total_tokens |-> 0, cc_active_tokens |-> 0,
      rtk_commands |-> 0, rtk_saved_tokens |-> 0, rtk_avg_savings_pct |-> Zero,
      blended_cpt |-> None, active_cpt |-> None,
      savings_blended |-> None, savings_active |-> None,
      pct_sum |-> Zero, pct_count |-> 0 ]

\* AddPeriod skipping the whole period when it has no spend_cost.
AddPeriod_skip_spendless(t, p) ==
    IF IsNone(p.cc_cost) THEN t
    ELSE [t EXCEPT
        !.cc_cost = FAdd(@, Unwrap(p.cc_cost)),
        !.cc_total_tokens = IF IsSome(p.cc_total_tokens) THEN @ + Unwrap(p.cc_total_tokens) ELSE @,
        !.cc_active_tokens = IF IsSome(p.cc_active_tokens) THEN @ + Unwrap(p.cc_active_tokens) ELSE @,
        !.rtk_commands = IF IsSome(p.rtk_commands) THEN @ + Unwrap(p.rtk_commands) ELSE @,
        !.rtk_saved_tokens = IF IsSome(p.rtk_saved_tokens) THEN @ + Unwrap(p.rtk_saved_tokens) ELSE @,
        !.pct_sum = IF IsSome(p.rtk_savings_pct) THEN FAdd(@, Unwrap(p.rtk_savings_pct)) ELSE @,
        !.pct_count = IF IsSome(p.rtk_savings_pct) THEN @ + 1 ELSE @]

\* AddPeriod counting every period in pct_count, with or without a savings_pct.
AddPeriod_counts_every_period(t, p) ==
    [t EXCEPT
        !.cc_cost = IF IsSome(p.cc_cost) THEN FAdd(@, Unwrap(p.cc_cost)) ELSE @,
        !.cc_total_tokens = IF IsSome(p.cc_total_tokens) THEN @ + Unwrap(p.cc_total_tokens) ELSE @,
        !.cc_active_tokens = IF IsSome(p.cc_active_tokens) THEN @ + Unwrap(p.cc_active_tokens) ELSE @,
        !.rtk_commands = IF IsSome(p.rtk_commands) THEN @ + Unwrap(p.rtk_commands) ELSE @,
        !.rtk_saved_tokens = IF IsSome(p.rtk_saved_tokens) THEN @ + Unwrap(p.rtk_saved_tokens) ELSE @,
        !.pct_sum = IF IsSome(p.rtk_savings_pct) THEN FAdd(@, Unwrap(p.rtk_savings_pct)) ELSE @,
        !.pct_count = @ + 1]

\* Body of `for p in periods`.
AddPeriod(t, p) ==
    [t EXCEPT
        !.cc_cost = IF IsSome(p.cc_cost) THEN FAdd(@, Unwrap(p.cc_cost)) ELSE @,
        !.cc_total_tokens = IF IsSome(p.cc_total_tokens) THEN @ + Unwrap(p.cc_total_tokens) ELSE @,
        !.cc_active_tokens = IF IsSome(p.cc_active_tokens) THEN @ + Unwrap(p.cc_active_tokens) ELSE @,
        !.rtk_commands = IF IsSome(p.rtk_commands) THEN @ + Unwrap(p.rtk_commands) ELSE @,
        !.rtk_saved_tokens = IF IsSome(p.rtk_saved_tokens) THEN @ + Unwrap(p.rtk_saved_tokens) ELSE @,
        !.pct_sum = IF IsSome(p.rtk_savings_pct) THEN FAdd(@, Unwrap(p.rtk_savings_pct)) ELSE @,
        !.pct_count = IF IsSome(p.rtk_savings_pct) THEN @ + 1 ELSE @]

\* `if pct_count > 0 { ... }`
AveragePct(t) ==
    IF t.pct_count > 0
    THEN [t EXCEPT !.rtk_avg_savings_pct = FDiv(t.pct_sum, F64(t.pct_count))]
    ELSE t

\* TotalsBlended dividing the summed cost by the summed active tokens.
TotalsBlended_by_active(t) ==
    IF t.cc_total_tokens > 0
    THEN LET cpt == FDiv(t.cc_cost, F64(t.cc_active_tokens)) IN
         [t EXCEPT !.blended_cpt = Some(cpt),
                   !.savings_blended = Some(FMul(F64(t.rtk_saved_tokens), cpt))]
    ELSE t

\* "Compute global dual metrics", blended half.
TotalsBlended(t) ==
    IF t.cc_total_tokens > 0
    THEN LET cpt == FDiv(t.cc_cost, F64(t.cc_total_tokens)) IN
         [t EXCEPT !.blended_cpt = Some(cpt),
                   !.savings_blended = Some(FMul(F64(t.rtk_saved_tokens), cpt))]
    ELSE t

\* "Compute global dual metrics", active half.
TotalsActive(t) ==
    IF t.cc_active_tokens > 0
    THEN LET cpt == FDiv(t.cc_cost, F64(t.cc_active_tokens)) IN
         [t EXCEPT !.active_cpt = Some(cpt),
                   !.savings_active = Some(FMul(F64(t.rtk_saved_tokens), cpt))]
    ELSE t

\* What follows the loop.
FinishTotals(t) == TotalsActive(TotalsBlended(AveragePct(t)))

RECURSIVE FoldPeriods(_, _)
FoldPeriods(t, ps) == IF ps = << >> THEN t ELSE FoldPeriods(AddPeriod(t, Head(ps)), Tail(ps))

compute_totals(ps) == FinishTotals(FoldPeriods(TotalsInit, ps))

-----------------------------------------------------------------------------
(* Inputs of the aggregator: the two records of test_compute_totals, the     *)
(* three shapes a merge produces (both sides, spend only, savings only) and *)
(* records with single fields set.                                          *)

MaxPeriods == 3

Str_2026_02 == <<"2", "0", "2", "6", "-", "0", "2">>

SamplePeriods ==
    { [new(Str_2026_01) EXCEPT !.cc_cost = Some(F64(100)), !.cc_total_tokens = Some(1000000),
                               !.cc_active_tokens = Some(10000), !.rtk_commands = Some(5),
                               !.rtk_saved_tokens = Some(2000), !.rtk_savings_pct = Some(F64(50))],
      [new(Str_2026_02) EXCEPT !.cc_cost = Some(F64(200)), !.cc_total_tokens = Some(2000000),
                               !.cc_active_tokens = Some(20000), !.rtk_commands = Some(10),
                               !.rtk_saved_tokens = Some(3000), !.rtk_savings_pct = Some(F64(60))],
      compute_dual_metrics(
          [new(Str_2026_01) EXCEPT !.cc_cost = Some(Rat(1234, 100)), !.cc_total_tokens = Some(1800),
                                   !.cc_active_tokens = Some(1500), !.rtk_commands = Some(10),
                                   !.rtk_saved_tokens = Some(5000), !.rtk_savings_pct = Some(Rat(2500, 31))]),
      [new(Str_2026_01) EXCEPT !.cc_cost = Some(Rat(1234, 100)), !.cc_total_tokens = Some(1800),
                               !.cc_active_tokens = Some(1500)],
      [new(Str_2026_02) EXCEPT !.rtk_commands = Some(10), !.rtk_saved_tokens = Some(5000),
                               !.rtk_savings_pct = Some(F64(50))],
      new(Str_2026_02),
      [new(Str_2026_01) EXCEPT !.cc_cost = Some(F64(1))],
      [new(Str_2026_01) EXCEPT !.cc_total_tokens = Some(700), !.rtk_saved_tokens = Some(100)],
      [new(Str_2026_02) EXCEPT !.cc_active_tokens = Some(300), !.rtk_commands = Some(2),
                               !.rtk_savings_pct = Some(F64(40))] }

-----------------------------------------------------------------------------
(* Specification of one compute_totals call. *)

InitTotals ==
    /\ pc = "totals"
    /\ periods \in UNION { Seqs(SamplePeriods, n) : n \in 0..MaxPeriods }
    /\ totals = TotalsInit
    /\ ti = 0
    /\ IdleConv /\ IdleDual /\ IdleMerge /\ IdleExport

\* One iteration of `for p in periods`.
TotalsStep ==
    /\ pc = "totals"
    /\ ti < Len(periods)
    /\ totals' = AddPeriod(totals, periods[ti + 1])
    /\ ti' = ti + 1
    /\ UNCHANGED <<pc, periods, convVars, dualVars, mergeVars, exportVars>>

\* The average, the global dual metrics, and the return.
TotalsFinish ==
    /\ pc = "totals"
    /\ ti = Len(periods)
    /\ totals' = FinishTotals(totals)
    /\ pc' = "totals_done"
    /\ UNCHANGED <<periods, ti, convVars, dualVars, mergeVars, exportVars>>

NextTotals == TotalsStep \/ TotalsFinish

SpecTotals == InitTotals /\ [][NextTotals]_vars

-----------------------------------------------------------------------------
(* The exporters: export_json, export_csv and print_csv_row. *)

\* Result<T> of a collaborator call.
Ok(v) == [ok |-> TRUE, val |-> v]
Err == [ok |-> FALSE, val |-> << >>]

\* `all || daily`, `all || weekly`, `all || monthly`
Requested(g) ==
    flags.all \/ (IF g = "day" THEN flags.daily
                  ELSE IF g = "week" THEN flags.weekly
                  ELSE flags.monthly)

\* The Export field a granularity fills.
SectionOf(g) == IF g = "day" THEN "daily" ELSE IF g = "week" THEN "weekly" ELSE "monthly"

\* Export { daily: None, weekly: None, monthly: None, totals: None }
EmptyExport == [daily |-> None, weekly |-> None, monthly |-> None, totals |-> None]

\* The Totals struct: what compute_totals returns, without its locals.
TotalsStruct(t) == [f \in DOMAIN t \ {"pct_sum", "pct_count"} |-> t[f]]

\* One member of the serialized object: an absent section is written as null.
Member(k, o) == [key |-> k, null |-> IsNone(o), value |-> IF IsSome(o) THEN Unwrap(o) ELSE << >>]

\* serde_json::to_string_pretty(&export): the object's members in field order.
to_string_pretty(e) ==
    << Member("daily", e.daily), Member("weekly", e.weekly),
       Member("monthly", e.monthly), Member("totals", e.totals) >>

\* The header line; a line is the sequence of its characters, the header's
\* column names and the non-finite numbers standing as single symbols.
CsvHeader ==
    << "period", ",", "spent", ",", "active_tokens", ",", "total_tokens", ",",
       "saved_tokens", ",", "active_savings", ",", "blended_savings", ",", "rtk_commands" >>

\* format!("{:.4}", x) of a non-negative f64: rounded to four decimals.
Fixed4(x) ==
    IF x.den = 0 THEN (IF x.num = 0 THEN <<"NaN">> ELSE <<"inf">>)
    ELSE LET scaled == (2 * x.num * 10000 + x.den) \div (2 * x.den)
         IN  NatToStr(scaled \div 10000) \o <<".">> \o PadZero(NatToStr(scaled % 10000), 4)

\* print_csv_row writing 0 for an absent field (unwrap_or(0) before formatting).
print_csv_row_zero_for_absent(p) ==
    LET money(o) == IF IsSome(o) THEN Fixed4(Unwrap(o)) ELSE Fixed4(Zero)
        count(o) == IF IsSome(o) THEN NatToStr(Unwrap(o)) ELSE NatToStr(0)
    IN  p.label \o <<",">> \o money(p.cc_cost) \o <<",">> \o count(p.cc_active_tokens)
        \o <<",">> \o count(p.cc_total_tokens) \o <<",">> \o count(p.rtk_saved_tokens)
        \o <<",">> \o money(p.savings_active) \o <<",">> \o money(p.savings_blended)
        \o <<",">> \o count(p.rtk_commands)

\* The line print_csv_row prints.
print_csv_row(p) ==
    LET money(o) == IF IsSome(o) THEN Fixed4(Unwrap(o)) ELSE << >>
        count(o) == IF IsSome(o) THEN NatToStr(Unwrap(o)) ELSE << >>
    IN  p.label \o <<",">> \o money(p.cc_cost) \o <<",">> \o count(p.cc_active_tokens)
        \o <<",">> \o count(p.cc_total_tokens) \o <<",">> \o count(p.rtk_saved_tokens)
        \o <<",">> \o money(p.savings_active) \o <<",">> \o money(p.savings_blended)
        \o <<",">> \o count(p.rtk_commands)

\* `for p in periods { print_csv_row(&p); }`
CsvRows(ps) == [i \in 1..Len(ps) |-> print_csv_row(ps[i])]

-----------------------------------------------------------------------------
(* The text display: print_period_table and the display_* functions.  A    *)
(* line is its kind and the symbols it shows; the fixed wording, the box   *)
(* drawing and the column padding are not spelled out.  format_usd and     *)
(* format_tokens belong to crate::utils: a cell keeps the function's name  *)
(* and its argument.                                                       *)

TextLine(kind, body) == [kind |-> kind, body |-> body]

\* The placeholder of an absent cell.
Placeholder == <<"em-dash">>

\* format!("{:.1}", x) of a non-negative f64.
Fixed1(x) ==
    IF x.den = 0 THEN (IF x.num = 0 THEN <<"NaN">> ELSE <<"inf">>)
    ELSE LET scaled == (2 * x.num * 10 + x.den) \div (2 * x.den)
         IN  NatToStr(scaled \div 10) \o <<".">> \o NatToStr(scaled % 10)

UsdCell(o) == IF IsSome(o) THEN <<"format_usd">> \o Fixed4(Unwrap(o)) ELSE Placeholder

TokensCell(o) == IF IsSome(o) THEN <<"format_tokens">> \o NatToStr(Unwrap(o)) ELSE Placeholder

CountCell(o) == IF IsSome(o) THEN NatToStr(Unwrap(o)) ELSE Placeholder

\* One row of print_period_table.
TableRow(p) ==
    TextLine("row", << p.label, UsdCell(p.cc_cost), TokensCell(p.rtk_saved_tokens),
                       UsdCell(p.savings_active), UsdCell(p.savings_blended),
                       CountCell(p.rtk_commands) >>)

\* print_period_table(&periods)
print_period_table(ps) ==
    << TextLine("blank", << >>),
       TextLine("table_header", <<"Period", "Spent", "Saved", "Active$", "Blended$", "RTK Cmds">>),
       TextLine("table_rule", << >>) >>
    \o [i \in 1..Len(ps) |-> TableRow(ps[i])]
    \o << TextLine("blank", << >>) >>

\* What display_daily / display_weekly / display_monthly print once both
\* sources have answered.
DisplaySection(g, ps) ==
    << TextLine("title", <<g>>), TextLine("rule", << >>) >> \o print_period_table(ps)

\* The message of display_summary for an empty monthly merge.
NoDataLine == TextLine("message", <<"No data available. Run some rtk commands to start tracking.">>)

\* (savings / totals.cc_cost) * 100.0, or 0.0 when the cost is not positive.
ShareOfCost(savings, cost) == IF cost.num > 0 THEN FMul(FDiv(savings, cost), F64(100)) ELSE Zero

\* A pricing line of the summary box.
PricingLine(kind, o, cost) ==
    TextLine(kind, IF IsSome(o)
                   THEN <<"format_usd">> \o Fixed4(Unwrap(o)) \o <<"(">>
                        \o Fixed1(ShareOfCost(Unwrap(o), cost)) \o <<"%)">>
                   ELSE Placeholder)

\* The summary down to the explanation of the two numbers.
SummaryHead(t) ==
    << TextLine("summary_title", <<"Claude Code Economics">>),
       TextLine("rule", << >>),
       TextLine("blank", << >>),
       TextLine("spent", UsdCell(Some(t.cc_cost))),
       TextLine("active_tokens", TokensCell(Some(t.cc_active_tokens))),
       TextLine("total_tokens", TokensCell(Some(t.cc_total_tokens))),
       TextLine("blank", << >>),
       TextLine("rtk_commands", CountCell(Some(t.rtk_commands))),
       TextLine("tokens_saved", TokensCell(Some(t.rtk_saved_tokens))),
       TextLine("blank", << >>),
       TextLine("box_top", <<"Estimated Savings:">>),
       PricingLine("active_pricing", t.savings_active, t.cc_cost),
       PricingLine("blended_pricing", t.savings_blended, t.cc_cost),
       TextLine("box_bottom", << >>),
       TextLine("blank", << >>),
       TextLine("why_two_numbers", << >>) >>

\* Billions of tokens, as the last line divides by 1_000_000_000.0.
Billion == 1000000000

\* The line with the cache reads, `totals.cc_total_tokens -
\* totals.cc_active_tokens` not being negative.
CacheReadsLine(t) ==
    TextLine("cache_reads", Fixed1(Rat(t.cc_total_tokens - t.cc_active_tokens, Billion)))

\* The same line of a build without overflow checks when the difference is
\* negative: the u64 wraps to 2^64 minus the deficit.
WrappedCacheReadsLine(t) ==
    TextLine("cache_reads", <<"2^64", "-">> \o NatToStr(t.cc_active_tokens - t.cc_total_tokens))

-----------------------------------------------------------------------------
(* Inputs of the exporters: per granularity, the spend source fails, has no *)
(* data or returns one entry, and the tracker fails, has no entries or      *)
(* returns one entry (the entries of test_merge_monthly_both_present).      *)

ExportCcEntry(g) ==
    [key |-> IF g = "day" THEN FormatDate([y |-> 2026, m |-> 1, d |-> 18])
             ELSE IF g = "week" THEN FormatDate([y |-> 2026, m |-> 1, d |-> 20])
             ELSE MonthText(2026, 3),
     metrics |-> [input_tokens |-> 1000, output_tokens |-> 500, cache_creation_tokens |-> 100,
                  cache_read_tokens |-> 200, total_tokens |-> 1800, total_cost |-> Rat(1234, 100)]]

ExportRtkEntry(g) ==
    [key |-> IF g = "day" THEN FormatDate([y |-> 2025, m |-> 12, d |-> 31])
             ELSE IF g = "week" THEN FormatDate([y |-> 2026, m |-> 1, d |-> 18])
             ELSE MonthText(2026, 1),
     commands |-> 10, input_tokens |-> 800, output_tokens |-> 400,
     saved_tokens |-> 5000, savings_pct |-> F64(50)]

SourceResults(g) ==
    [cc : {Err, Ok(None), Ok(Some(<<ExportCcEntry(g)>>))},
     rtk : {Err, Ok(<< >>), Ok(<<ExportRtkEntry(g)>>)}]

ExportSources ==
    { [g \in Grans |-> IF g = "day" THEN d ELSE IF g = "week" THEN w ELSE m] :
          d \in SourceResults("day"), w \in SourceResults("week"), m \in SourceResults("month") }

-----------------------------------------------------------------------------
(* Specification of one export_json or export_csv call. *)

InitExport ==
    /\ pc = "export"
    /\ flags \in [daily : BOOLEAN, weekly : BOOLEAN, monthly : BOOLEAN, all : BOOLEAN,
                  format : {"json", "csv"}]
    /\ sources \in ExportSources
    /\ export = << >>
    /\ stdout = << >>
    /\ ret = "none"
    /\ calls = << >>
    /\ IdleConv /\ IdleDual /\ IdleMerge /\ IdleTotals

\* Control after the block of granularity g: the next `if`, the
\* serialization, or `Ok(())`.
Leave(g) ==
    IF g = "day" THEN pc' = "section" /\ gran' = "week" /\ ret' = ret
    ELSE IF g = "week" THEN pc' = "section" /\ gran' = "month" /\ ret' = ret
    ELSE IF flags.format = "json" THEN pc' = "serialize" /\ gran' = gran /\ ret' = ret
    ELSE pc' = "returned" /\ gran' = gran /\ ret' = "Ok"

\* What precedes the first `if`: the empty Export, or the header line.
Begin ==
    /\ pc = "export"
    /\ IF flags.format = "json"
       THEN export' = EmptyExport /\ stdout' = stdout
       ELSE export' = export /\ stdout' = Append(stdout, CsvHeader)
    /\ pc' = "section"
    /\ gran' = "day"
    /\ UNCHANGED <<cc, rtk, map, idx, result, warnings, flags, sources, ret, calls,
                   convVars, dualVars, totalsVars>>

\* `if all || <granularity>` is false.
SkipSection ==
    /\ pc = "section"
    /\ ~Requested(gran)
    /\ Leave(gran)
    /\ UNCHANGED <<cc, rtk, map, idx, result, warnings, flags, sources, export, stdout, calls,
                   convVars, dualVars, totalsVars>>

\* FetchCc of the text display printing the section's title before it
\* fetches anything.
FetchCc_title_first ==
    /\ pc = "section"
    /\ Requested(gran)
    /\ calls' = Append(calls, <<"fetch", gran>>)
    /\ stdout' = IF flags.format \in {"json", "csv"} THEN stdout
                 ELSE stdout \o <<TextLine("title", <<gran>>), TextLine("rule", << >>)>>
    /\ IF sources[gran].cc.ok
       THEN cc' = sources[gran].cc.val /\ pc' = "read_rtk" /\ ret' = ret
       ELSE cc' = cc /\ pc' = "returned" /\ ret' = "Failed to fetch ccusage data"
    /\ UNCHANGED <<gran, rtk, map, idx, result, warnings, flags, sources, export,
                   convVars, dualVars, totalsVars>>

\* `let cc = ccusage::fetch(..).context(..)?;`
FetchCc ==
    /\ pc = "section"
    /\ Requested(gran)
    /\ calls' = Append(calls, <<"fetch", gran>>)
    /\ IF sources[gran].cc.ok
       THEN cc' = sources[gran].cc.val /\ pc' = "read_rtk" /\ ret' = ret
       ELSE cc' = cc /\ pc' = "returned" /\ ret' = "Failed to fetch ccusage data"
    /\ UNCHANGED <<gran, rtk, map, idx, result, warnings, flags, sources, export, stdout,
                   convVars, dualVars, totalsVars>>

\* `let rtk = tracker.get_..().context(..)?;`
ReadRtk ==
    /\ pc = "read_rtk"
    /\ calls' = Append(calls, <<"read", gran>>)
    /\ IF sources[gran].rtk.ok
       THEN rtk' = sources[gran].rtk.val /\ pc' = "merge_section" /\ ret' = ret
       ELSE rtk' = rtk /\ pc' = "returned" /\ ret' = "Failed to load token savings"
    /\ UNCHANGED <<gran, cc, map, idx, result, warnings, flags, sources, export, stdout,
                   convVars, dualVars, totalsVars>>

\* EmitSection computing the totals from every section it stores.
EmitSection_totals_of_any_section ==
    /\ pc = "merge_section"
    /\ LET ps == merge(gran, cc, rtk) IN
       IF flags.format = "json"
       THEN /\ export' = [export EXCEPT
                             ![SectionOf(gran)] = Some(ps),
                             !.totals = Some(TotalsStruct(compute_totals(ps)))]
            /\ stdout' = stdout
       ELSE /\ stdout' = stdout \o (IF flags.format = "csv" THEN CsvRows(ps)
                                    ELSE DisplaySection(gran, ps))
            /\ export' = export
    /\ Leave(gran)
    /\ UNCHANGED <<cc, rtk, map, idx, result, warnings, flags, sources, calls,
                   convVars, dualVars, totalsVars>>

\* EmitSection of export_json printing each section as soon as it is merged.
EmitSection_printing_each_section ==
    /\ pc = "merge_section"
    /\ LET ps == merge(gran, cc, rtk) IN
       IF flags.format = "json"
       THEN /\ export' = [export EXCEPT
                             ![SectionOf(gran)] = Some(ps),
                             !.totals = IF gran = "month"
                                        THEN Some(TotalsStruct(compute_totals(ps)))
                                        ELSE @]
            /\ stdout' = Append(stdout, <<Member(SectionOf(gran), Some(ps))>>)
       ELSE /\ stdout' = stdout \o (IF flags.format = "csv" THEN CsvRows(ps)
                                    ELSE DisplaySection(gran, ps))
            /\ export' = export
    /\ Leave(gran)
    /\ UNCHANGED <<cc, rtk, map, idx, result, warnings, flags, sources, calls,
                   convVars, dualVars, totalsVars>>

\* The merge of the section and what is done with its periods: stored in the
\* Export (with the totals, for the monthly section), printed row by row, or
\* displayed as a titled table.
EmitSection ==
    /\ pc = "merge_section"
    /\ LET ps == merge(gran, cc, rtk) IN
       IF flags.format = "json"
       THEN /\ export' = [export EXCEPT
                             ![SectionOf(gran)] = Some(ps),
                             !.totals = IF gran = "month"
                                        THEN Some(TotalsStruct(compute_totals(ps)))
                                        ELSE @]
            /\ stdout' = stdout
       ELSE /\ stdout' = stdout \o (IF flags.format = "csv" THEN CsvRows(ps)
                                    ELSE DisplaySection(gran, ps))
            /\ export' = export
    /\ Leave(gran)
    /\ UNCHANGED <<cc, rtk, map, idx, result, warnings, flags, sources, calls,
                   convVars, dualVars, totalsVars>>

\* SerializeJson printing the sections one by one while it serializes them.
SerializeJson_streaming ==
    /\ pc = "serialize"
    /\ \E ok \in BOOLEAN :
           /\ stdout' = Append(stdout, to_string_pretty(export))
           /\ ret' = IF ok THEN "Ok" ELSE "Failed to serialize economics data to JSON"
    /\ pc' = "returned"
    /\ UNCHANGED <<gran, cc, rtk, map, idx, result, warnings, flags, sources, export, calls,
                   convVars, dualVars, totalsVars>>

\* `println!("{}", serde_json::to_string_pretty(&export).context(..)?); Ok(())`
SerializeJson ==
    /\ pc = "serialize"
    /\ \E ok \in BOOLEAN :
           IF ok
           THEN stdout' = Append(stdout, to_string_pretty(export)) /\ ret' = "Ok"
           ELSE stdout' = stdout /\ ret' = "Failed to serialize economics data to JSON"
    /\ pc' = "returned"
    /\ UNCHANGED <<gran, cc, rtk, map, idx, result, warnings, flags, sources, export, calls,
                   convVars, dualVars, totalsVars>>

NextExport == Begin \/ SkipSection \/ FetchCc \/ ReadRtk \/ EmitSection \/ SerializeJson

SpecExport == InitExport /\ [][NextExport]_vars

-----------------------------------------------------------------------------
(* Specification of one `run` call: the tracker is opened, the format      *)
(* selects export_json, export_csv or display_text, and display_text       *)
(* selects the summary or the requested sections.                          *)

\* A format that is neither "json" nor "csv" nor the default "text".
OtherFormat == "yaml"

\* The result of Tracker::new() next to those of the three granularities.
\* A tracker that fails to open is never asked anything.
RunSources ==
    { [k \in Grans \cup {"tracker"} |-> IF k = "tracker" THEN Ok(<< >>) ELSE s[k]] :
          s \in ExportSources }
    \cup { [k \in Grans \cup {"tracker"} |-> IF k = "tracker" THEN Err ELSE Ok(<< >>)] }

InitRun ==
    /\ pc = "run"
    /\ flags \in [daily : BOOLEAN, weekly : BOOLEAN, monthly : BOOLEAN, all : BOOLEAN,
                  format : {"json", "csv", "text", OtherFormat}]
    /\ sources \in RunSources
    /\ export = << >>
    /\ stdout = << >>
    /\ ret = "none"
    /\ calls = << >>
    /\ IdleConv /\ IdleDual /\ IdleMerge /\ IdleTotals

\* `let tracker = Tracker::new().context(..)?;`
OpenTracker ==
    /\ pc = "run"
    /\ IF sources["tracker"].ok
       THEN pc' = "dispatch" /\ ret' = ret
       ELSE pc' = "returned" /\ ret' = "Failed to initialize tracking database"
    /\ UNCHANGED <<gran, cc, rtk, map, idx, result, warnings, flags, sources, export, stdout,
                   calls, convVars, dualVars, totalsVars>>

\* Dispatch sending every format but "text" to the exporters.
Dispatch_export_by_default ==
    /\ pc = "dispatch"
    /\ pc' = IF flags.format = "text" THEN "text" ELSE "export"
    /\ UNCHANGED <<gran, cc, rtk, map, idx, result, warnings, flags, sources, export, stdout,
                   ret, calls, convVars, dualVars, totalsVars>>

\* `match format { "json" => .., "csv" => .., _ => .. }`
Dispatch ==
    /\ pc = "dispatch"
    /\ pc' = IF flags.format \in {"json", "csv"} THEN "export" ELSE "text"
    /\ UNCHANGED <<gran, cc, rtk, map, idx, result, warnings, flags, sources, export, stdout,
                   ret, calls, convVars, dualVars, totalsVars>>

\* display_text: the summary when no flag is set, the sections otherwise.
DisplayText ==
    /\ pc = "text"
    /\ IF ~flags.daily /\ ~flags.weekly /\ ~flags.monthly /\ ~flags.all
       THEN pc' = "summary_fetch" /\ gran' = "month"
       ELSE pc' = "section" /\ gran' = "day"
    /\ UNCHANGED <<cc, rtk, map, idx, result, warnings, flags, sources, export, stdout,
                   ret, calls, convVars, dualVars, totalsVars>>

\* display_summary: `let cc_monthly = ccusage::fetch(Monthly).context(..)?;`
SummaryFetch ==
    /\ pc = "summary_fetch"
    /\ calls' = Append(calls, <<"fetch", "month">>)
    /\ IF sources["month"].cc.ok
       THEN cc' = sources["month"].cc.val /\ pc' = "summary_read" /\ ret' = ret
       ELSE cc' = cc /\ pc' = "returned" /\ ret' = "Failed to fetch ccusage data"
    /\ UNCHANGED <<gran, rtk, map, idx, result, warnings, flags, sources, export, stdout,
                   convVars, dualVars, totalsVars>>

\* display_summary: `let rtk_monthly = tracker.get_by_month().context(..)?;`
SummaryRead ==
    /\ pc = "summary_read"
    /\ calls' = Append(calls, <<"read", "month">>)
    /\ IF sources["month"].rtk.ok
       THEN rtk' = sources["month"].rtk.val /\ pc' = "summary_show" /\ ret' = ret
       ELSE rtk' = rtk /\ pc' = "returned" /\ ret' = "Failed to load token savings"
    /\ UNCHANGED <<gran, cc, map, idx, result, warnings, flags, sources, export, stdout,
                   convVars, dualVars, totalsVars>>

\* display_summary from merge_monthly to the end.  The subtraction of the
\* last line is an unchecked u64 subtraction: when the active tokens exceed
\* the total tokens a build with overflow checks panics there, after the
\* lines above it were printed, and a build without them prints the wrapped
\* difference.
SummaryShow ==
    /\ pc = "summary_show"
    /\ LET ps == merge("month", cc, rtk)
           t  == compute_totals(ps)
       IN  IF ps = << >>
           THEN stdout' = Append(stdout, NoDataLine) /\ ret' = "Ok"
           ELSE IF t.cc_total_tokens >= t.cc_active_tokens
           THEN /\ stdout' = stdout \o SummaryHead(t)
                              \o <<CacheReadsLine(t), TextLine("blank", << >>)>>
                /\ ret' = "Ok"
           ELSE \E overflow_checks \in BOOLEAN :
                    IF overflow_checks
                    THEN /\ stdout' = stdout \o SummaryHead(t)
                         /\ ret' = "panicked: attempt to subtract with overflow"
                    ELSE /\ stdout' = stdout \o SummaryHead(t)
                                       \o <<WrappedCacheReadsLine(t), TextLine("blank", << >>)>>
                         /\ ret' = "Ok"
    /\ pc' = "returned"
    /\ UNCHANGED <<gran, cc, rtk, map, idx, result, warnings, flags, sources, export,
                   calls, convVars, dualVars, totalsVars>>

NextRun ==
    \/ OpenTracker \/ Dispatch \/ DisplayText
    \/ SummaryFetch \/ SummaryRead \/ SummaryShow
    \/ Begin \/ SkipSection \/ FetchCc \/ ReadRtk \/ EmitSection \/ SerializeJson

SpecRun == InitRun /\ [][NextRun]_vars

-----------------------------------------------------------------------------
(* Specification of one display_summary call, over spend ledgers that      *)
(* include a period whose total_tokens is below input_tokens +             *)
(* output_tokens.  ccusage's figures are deserialized as they come: no     *)
(* code between the fetch and set_ccusage relates the fields.              *)

\* A period reported with fewer total tokens than input plus output tokens.
InconsistentMetrics ==
    [input_tokens |-> 1000, output_tokens |-> 500, cache_creation_tokens |-> 0,
     cache_read_tokens |-> 0, total_tokens |-> 100, total_cost |-> Rat(1234, 100)]

SummaryCcEntries ==
    { [key |-> k, metrics |-> mt] :
          k \in {MonthText(2026, 1), MonthText(2026, 3)},
          mt \in {ExportCcEntry("month").metrics, InconsistentMetrics} }

MaxSummaryEntries == 2

SummarySources ==
    { [k \in Grans \cup {"tracker"} |->
          IF k = "month" THEN [cc |-> c, rtk |-> r] ELSE Ok(<< >>)] :
          c \in {Err, Ok(None)}
                \cup { Ok(Some(s)) : s \in UNION { Seqs(SummaryCcEntries, n) :
                                                       n \in 0..MaxSummaryEntries } },
          r \in {Err, Ok(<< >>), Ok(<<ExportRtkEntry("month")>>)} }

InitSummary ==
    /\ pc = "summary_fetch"
    /\ flags = [daily |-> FALSE, weekly |-> FALSE, monthly |-> FALSE, all |-> FALSE,
                format |-> "text"]
    /\ sources \in SummarySources
    /\ export = << >>
    /\ stdout = << >>
    /\ ret = "none"
    /\ calls = << >>
    /\ IdleConv /\ IdleDual /\ IdleMerge /\ IdleTotals

NextSummary == SummaryFetch \/ SummaryRead \/ SummaryShow

SpecSummary == InitSummary /\ [][NextSummary]_vars

-----------------------------------------------------------------------------
(* Specification of merge_daily, merge_weekly and merge_monthly running    *)
(* side by side, one call of each, their steps interleaved.  Each call's   *)
(* arguments and locals are its own: pc, cc, rtk, map, idx, result and     *)
(* warnings hold one value per granularity here.                           *)

\* The spend entry handed to the merge of granularity g; the input tokens
\* tell the three ledgers apart.
ParCcEntry(g) ==
    [ExportCcEntry(g) EXCEPT
        !.metrics.input_tokens = @ + (IF g = "day" THEN 1 ELSE IF g = "week" THEN 2 ELSE 3)]

\* The savings entry handed to the merge of granularity g.
ParRtkEntry(g) ==
    [ExportRtkEntry(g) EXCEPT
        !.commands = @ + (IF g = "day" THEN 1 ELSE IF g = "week" THEN 2 ELSE 3)]

\* `let mut map: HashMap<..> = HashMap::new();` the map a call works on.
MapOf_shared(g) == "day"

MapOf(g) == g

InitPar ==
    /\ pc = [g \in Grans |-> "merge_cc"]
    /\ cc \in { [g \in Grans |-> IF g = "day" THEN d ELSE IF g = "week" THEN w ELSE m] :
                    d \in {None, Some(<<ParCcEntry("day")>>)},
                    w \in {None, Some(<<ParCcEntry("week")>>)},
                    m \in {None, Some(<<ParCcEntry("month")>>)} }
    /\ rtk \in { [g \in Grans |-> IF g = "day" THEN d ELSE IF g = "week" THEN w ELSE m] :
                     d \in {<< >>, <<ParRtkEntry("day")>>},
                     w \in {<< >>, <<ParRtkEntry("week")>>},
                     m \in {<< >>, <<ParRtkEntry("month")>>} }
    /\ map = [g \in Grans |-> << >>]
    /\ idx = [g \in Grans |-> 0]
    /\ result = [g \in Grans |-> << >>]
    /\ warnings = [g \in Grans |-> << >>]
    /\ gran = "none"
    /\ IdleConv /\ IdleDual /\ IdleTotals /\ IdleExport

\* One iteration of `for entry in cc_data` in the merge of granularity g.
ParMergeCc(g) ==
    /\ pc[g] = "merge_cc"
    /\ IsSome(cc[g])
    /\ idx[g] < Len(Unwrap(cc[g]))
    /\ map' = [map EXCEPT ![MapOf(g)] = InsertCcEntry(@, Unwrap(cc[g])[idx[g] + 1])]
    /\ idx' = [idx EXCEPT ![g] = @ + 1]
    /\ UNCHANGED <<pc, gran, cc, rtk, result, warnings, convVars, dualVars, totalsVars, exportVars>>

ParMergeCcEnd(g) ==
    /\ pc[g] = "merge_cc"
    /\ idx[g] = (IF IsSome(cc[g]) THEN Len(Unwrap(cc[g])) ELSE 0)
    /\ pc' = [pc EXCEPT ![g] = "merge_rtk"]
    /\ idx' = [idx EXCEPT ![g] = 0]
    /\ UNCHANGED <<gran, cc, rtk, map, result, warnings, convVars, dualVars, totalsVars, exportVars>>

\* One iteration of `for entry in rtk` in the merge of granularity g.
ParMergeRtk(g) ==
    /\ pc[g] = "merge_rtk"
    /\ idx[g] < Len(rtk[g])
    /\ map' = [map EXCEPT ![MapOf(g)] = InsertRtkEntry(g, @, rtk[g][idx[g] + 1])]
    /\ warnings' = [warnings EXCEPT ![g] = IF IsNone(RtkKey(g, rtk[g][idx[g] + 1]))
                                           THEN Append(@, rtk[g][idx[g] + 1].key)
                                           ELSE @]
    /\ idx' = [idx EXCEPT ![g] = @ + 1]
    /\ UNCHANGED <<pc, gran, cc, rtk, result, convVars, dualVars, totalsVars, exportVars>>

ParMergeRtkEnd(g) ==
    /\ pc[g] = "merge_rtk"
    /\ idx[g] = Len(rtk[g])
    /\ pc' = [pc EXCEPT ![g] = "collect"]
    /\ UNCHANGED <<gran, cc, rtk, map, idx, result, warnings, convVars, dualVars, totalsVars, exportVars>>

\* map.into_values().collect() in the merge of granularity g.
ParCollect(g) ==
    /\ pc[g] = "collect"
    /\ \E ps \in ValueOrders(map[MapOf(g)]) : result' = [result EXCEPT ![g] = ps]
    /\ pc' = [pc EXCEPT ![g] = "metrics"]
    /\ UNCHANGED <<gran, cc, rtk, map, idx, warnings, convVars, dualVars, totalsVars, exportVars>>

ParComputeMetrics(g) ==
    /\ pc[g] = "metrics"
    /\ result' = [result EXCEPT ![g] = ComputeAll(@)]
    /\ pc' = [pc EXCEPT ![g] = "sort"]
    /\ UNCHANGED <<gran, cc, rtk, map, idx, warnings, convVars, dualVars, totalsVars, exportVars>>

ParSort(g) ==
    /\ pc[g] = "sort"
    /\ result' = [result EXCEPT ![g] = sort_by_label(@)]
    /\ pc' = [pc EXCEPT ![g] = "merged"]
    /\ UNCHANGED <<gran, cc, rtk, map, idx, warnings, convVars, dualVars, totalsVars, exportVars>>

\* Any call takes its next step.
NextPar ==
    \E g \in Grans :
        \/ ParMergeCc(g) \/ ParMergeCcEnd(g) \/ ParMergeRtk(g) \/ ParMergeRtkEnd(g)
        \/ ParCollect(g) \/ ParComputeMetrics(g) \/ ParSort(g)

SpecPar == InitPar /\ [][NextPar]_vars

-----------------------------------------------------------------------------
(* Calendar arithmetic used to state the normalizer's contract. *)

\* Days since 1970-01-01 of a calendar date of year >= 1 (civil-day count).
DayNumber(dt) ==
    LET y == IF dt.m <= 2 THEN dt.y - 1 ELSE dt.y
        era == y \div 400
        yoe == y - era * 400
        mp == (dt.m + 9) % 12
        doy == (153 * mp + 2) \div 5 + dt.d - 1
        doe == yoe * 365 + yoe \div 4 - yoe \div 100 + doy
    IN  era * 146097 + doe - 719468

\* 0 = Sunday .. 6 = Saturday (1970-01-01 was a Thursday).
Weekday(dt) == (DayNumber(dt) + 4) % 7

\* Exactly four digits, "-", two digits, "-", two digits.
IsYmdText(s) ==
    /\ Len(s) = 10
    /\ s[5] = "-" /\ s[8] = "-"
    /\ \A i \in {1, 2, 3, 4, 6, 7, 9, 10} : IsDigit(s[i])

YmdValue(s) ==
    [ y |-> 1000 * DigitVal(s[1]) + 100 * DigitVal(s[2]) + 10 * DigitVal(s[3]) + DigitVal(s[4]),
      m |-> 10 * DigitVal(s[6]) + DigitVal(s[7]),
      d |-> 10 * DigitVal(s[9]) + DigitVal(s[10]) ]

IsYmdDate(s) == IsYmdText(s) /\ ValidDate(YmdValue(s).y, YmdValue(s).m, YmdValue(s).d)

Str_2026_01_18 == <<"2", "0", "2", "6", "-", "0", "1", "-", "1", "8">>

Str_2026_01_20 == <<"2", "0", "2", "6", "-", "0", "1", "-", "2", "0">>

-----------------------------------------------------------------------------
(* Claims *)

\* C4: after compute_dual_metrics, a record whose spend_total_tokens is 0 has
\* neither blended_cost_per_token nor savings_value_blended, a record whose
\* spend_active_tokens is 0 has neither active_cost_per_token nor
\* savings_value_active, and no stored derived value is the result of a division
\* by zero (infinity or NaN).
C4_ZeroTokensGiveAbsence ==
    pc = "dual_done" =>
        /\ period.cc_total_tokens = Some(0) =>
               IsNone(period.blended_cpt) /\ IsNone(period.savings_blended)
        /\ period.cc_active_tokens = Some(0) =>
               IsNone(period.active_cpt) /\ IsNone(period.savings_active)
        /\ \A f \in {period.blended_cpt, period.active_cpt,
                     period.savings_blended, period.savings_active} :
               IsSome(f) => IsFinite(Unwrap(f))

\* C4 witness: cost and savings present, total tokens 0, active tokens > 0: the
\* active rate was computed and the blended one left absent.
C4_Witness ==
    /\ pc = "dual_done"
    /\ IsSome(period.cc_cost) /\ IsSome(period.rtk_saved_tokens)
    /\ period.cc_total_tokens = Some(0)
    /\ IsSome(period.active_cpt)
    /\ IsNone(period.blended_cpt)

\* C6: a record without savings_tokens gets no savings value whatever cost and
\* token data it holds, and a record with savings_tokens but without spend_cost
\* gets no cost-per-token and no savings value.
C6_MissingSideGivesNoValue ==
    pc = "dual_done" =>
        /\ IsNone(period.rtk_saved_tokens) =>
               IsNone(period.savings_blended) /\ IsNone(period.savings_active)
        /\ (IsSome(period.rtk_saved_tokens) /\ IsNone(period.cc_cost)) =>
               /\ IsNone(period.blended_cpt) /\ IsNone(period.active_cpt)
               /\ IsNone(period.savings_blended) /\ IsNone(period.savings_active)

\* C6 witness: cost and positive token counts but no savings_tokens.
C6_Witness ==
    /\ pc = "dual_done"
    /\ IsNone(period.rtk_saved_tokens)
    /\ IsSome(period.cc_cost)
    /\ IsSome(period.cc_total_tokens) /\ Unwrap(period.cc_total_tokens) > 0
    /\ IsSome(period.cc_active_tokens) /\ Unwrap(period.cc_active_tokens) > 0

\* C8: an input that parses as a date d yields Some of the zero-padded
\* YYYY-MM-DD text of the calendar day exactly 2 days after d (so a Saturday
\* yields the following Monday); a well-formed YYYY-MM-DD date parses as itself;
\* an input that does not parse yields None; "2026-01-18" yields
\* Some("2026-01-20") and "invalid" yields None.
C8_SaturdayToMonday ==
    pc = "converted" =>
        LET d == ParseDate(saturday) IN
        /\ IsYmdDate(saturday) => d = Some(YmdValue(saturday))
        /\ IsSome(d) =>
               /\ IsSome(monday)
               /\ IsYmdDate(Unwrap(monday))
               /\ DayNumber(YmdValue(Unwrap(monday))) = DayNumber(Unwrap(d)) + 2
               /\ Weekday(Unwrap(d)) = 6 => Weekday(YmdValue(Unwrap(monday))) = 1
        /\ IsNone(d) => monday = None
        /\ saturday = Str_2026_01_18 => monday = Some(Str_2026_01_20)
        /\ saturday = Str_invalid => monday = None

\* C8 witness: a Saturday at a year end, converted to a Monday of the next year.
C8_Witness ==
    /\ pc = "converted"
    /\ IsYmdDate(saturday)
    /\ Weekday(YmdValue(saturday)) = 6
    /\ IsSome(monday)
    /\ YmdValue(Unwrap(monday)).y = YmdValue(saturday).y + 1
-----------------------------------------------------------------------------
(* Vocabulary of the merger's claims. *)

\* The keys of the spend ledger handed to the merge (none when it is None).
SpendKeys == IF IsSome(cc) THEN { Unwrap(cc)[i].key : i \in 1..Len(Unwrap(cc)) } ELSE {}

\* The canonical key of a savings entry: its date or month as it is, its
\* week_start moved from Saturday to Monday (None when it is not a date).
CanonicalKey(e) == IF gran = "week" THEN convert_saturday_to_monday(e.key) ELSE Some(e.key)

Parseable(e) == IsSome(CanonicalKey(e))

SavingsKeys == { Unwrap(CanonicalKey(rtk[i])) : i \in { j \in 1..Len(rtk) : Parseable(rtk[j]) } }

Labels == { result[i].label : i \in 1..Len(result) }

SpendAbsent(r) == IsNone(r.cc_cost) /\ IsNone(r.cc_total_tokens) /\ IsNone(r.cc_active_tokens)

SpendPresent(r) == IsSome(r.cc_cost) /\ IsSome(r.cc_total_tokens) /\ IsSome(r.cc_active_tokens)

SavingsAbsent(r) == IsNone(r.rtk_commands) /\ IsNone(r.rtk_saved_tokens) /\ IsNone(r.rtk_savings_pct)

SavingsPresent(r) == IsSome(r.rtk_commands) /\ IsSome(r.rtk_saved_tokens) /\ IsSome(r.rtk_savings_pct)

DerivedAbsent(r) ==
    /\ IsNone(r.blended_cpt) /\ IsNone(r.active_cpt)
    /\ IsNone(r.savings_blended) /\ IsNone(r.savings_active)

\* s without its j-th element.
RemoveAt(s, j) == [i \in 1..(Len(s) - 1) |-> IF i < j THEN s[i] ELSE s[i + 1]]

\* rate = cost / tokens and value = saved * rate, cross-multiplied.
IsQuotient(rate, cost, tokens) == rate.num * cost.den * tokens = cost.num * rate.den

IsProduct(value, saved, rate) == value.num * rate.den = saved * rate.num * value.den

\* C1: the list a merge returns has no two records with the same label and is
\* in strictly ascending bytewise order of label, whatever the inputs (None or
\* any spend list, keys repeated within a source or shared by both).
C1_SortedUniqueLabels ==
    pc = "merged" =>
        \A i \in 1..(Len(result) - 1) : StrLess(result[i].label, result[i + 1].label)

\* C1 witness: a merge of three entries, a key repeated within the spend list
\* and another key from the savings list, returned as two records.
C1_Witness ==
    /\ pc = "merged"
    /\ Len(result) = 2
    /\ IsSome(cc) /\ Len(Unwrap(cc)) = 2 /\ Len(rtk) = 1
    /\ Unwrap(cc)[1].key = Unwrap(cc)[2].key
    /\ Unwrap(cc)[1].metrics # Unwrap(cc)[2].metrics

\* C2: the labels of the merged result are exactly the spend keys together
\* with the canonical savings keys, one record per distinct key.
C2_LabelsAreUnionOfKeys ==
    pc = "merged" =>
        /\ Labels = SpendKeys \cup SavingsKeys
        /\ Len(result) = Cardinality(SpendKeys \cup SavingsKeys)

\* C2 witness: a weekly merge where one savings week normalizes to a spend
\* key and another to a key of its own: two records from three entries.
C2_Witness ==
    /\ pc = "merged"
    /\ gran = "week"
    /\ SpendKeys \cap SavingsKeys # {}
    /\ SavingsKeys \ SpendKeys # {}
    /\ Len(result) = 2

\* C3: in every merged record each spend-side field is present exactly when
\* the spend ledger has an entry for the record's key, and each savings-side
\* field exactly when a savings entry normalizes to that key.
C3_SidePresentIffSourceHasKey ==
    pc = "merged" =>
        \A i \in 1..Len(result) :
            LET r == result[i] IN
            /\ IF r.label \in SpendKeys THEN SpendPresent(r) ELSE SpendAbsent(r)
            /\ IF r.label \in SavingsKeys THEN SavingsPresent(r) ELSE SavingsAbsent(r)

\* C3 witness: a savings-only record next to a spend-only record whose spend
\* entry is all zeros (present, not absent).
C3_Witness ==
    /\ pc = "merged"
    /\ \E i, j \in 1..Len(result) :
           /\ SpendAbsent(result[i]) /\ SavingsPresent(result[i])
           /\ SavingsAbsent(result[j]) /\ result[j].cc_total_tokens = Some(0)

\* C5: in every merged record a rate that is present comes with spend_cost and
\* its token count present, the count > 0, the rate equal to cost / count and
\* the matching savings value equal to savings_tokens * rate; each rate is
\* present whenever its own preconditions hold, whatever the other token count.
C5_RatesAreQuotients ==
    pc = "merged" =>
        \A i \in 1..Len(result) :
            LET r == result[i] IN
            /\ IsSome(r.blended_cpt) =>
                   /\ IsSome(r.cc_cost) /\ IsSome(r.cc_total_tokens) /\ IsSome(r.rtk_saved_tokens)
                   /\ Unwrap(r.cc_total_tokens) > 0
                   /\ IsQuotient(Unwrap(r.blended_cpt), Unwrap(r.cc_cost), Unwrap(r.cc_total_tokens))
                   /\ IsSome(r.savings_blended)
                   /\ IsProduct(Unwrap(r.savings_blended), Unwrap(r.rtk_saved_tokens), Unwrap(r.blended_cpt))
            /\ IsSome(r.active_cpt) =>
                   /\ IsSome(r.cc_cost) /\ IsSome(r.cc_active_tokens) /\ IsSome(r.rtk_saved_tokens)
                   /\ Unwrap(r.cc_active_tokens) > 0
                   /\ IsQuotient(Unwrap(r.active_cpt), Unwrap(r.cc_cost), Unwrap(r.cc_active_tokens))
                   /\ IsSome(r.savings_active)
                   /\ IsProduct(Unwrap(r.savings_active), Unwrap(r.rtk_saved_tokens), Unwrap(r.active_cpt))
            /\ (SpendPresent(r) /\ SavingsPresent(r) /\ Unwrap(r.cc_total_tokens) > 0) =>
                   IsSome(r.blended_cpt)
            /\ (SpendPresent(r) /\ SavingsPresent(r) /\ Unwrap(r.cc_active_tokens) > 0) =>
                   IsSome(r.active_cpt)

\* C5 witness: a record of cache-only spend and non-zero savings: its blended
\* rate and value are present while its active rate is absent.
C5_Witness ==
    /\ pc = "merged"
    /\ \E j \in 1..Len(result) :
           /\ IsSome(result[j].blended_cpt) /\ IsNone(result[j].active_cpt)
           /\ IsSome(result[j].savings_blended)
           /\ Unwrap(result[j].savings_blended).num > 0

\* C7: with the spend collection None the merge completes with one record per
\* canonical savings key, every spend-side and derived field absent, and the
\* records equal to those of a merge with an empty spend collection.
C7_NoSpendCollection ==
    (pc = "merged" /\ IsNone(cc)) =>
        /\ Labels = SavingsKeys
        /\ Len(result) = Cardinality(SavingsKeys)
        /\ \A i \in 1..Len(result) :
               SpendAbsent(result[i]) /\ DerivedAbsent(result[i]) /\ SavingsPresent(result[i])
        /\ result = merge(gran, Some(<< >>), rtk)

\* C7 witness: None merged with savings entries for two keys.
C7_Witness ==
    /\ pc = "merged"
    /\ IsNone(cc)
    /\ Len(result) >= 2

\* C9: in merge_weekly each savings entry whose week_start does not parse is
\* dropped: the merge completes with the result of the same merge without that
\* entry, no record is labelled with its raw week_start or with any key outside
\* the spend keys and the canonical savings keys, and the entry is reported.
C9_UnparseableWeekDropped ==
    (pc = "merged" /\ gran = "week") =>
        /\ \A j \in 1..Len(rtk) :
               ~Parseable(rtk[j]) =>
                   /\ result = merge("week", cc, RemoveAt(rtk, j))
                   /\ rtk[j].key \notin Labels
        /\ Labels \subseteq SpendKeys \cup SavingsKeys
        /\ \A i \in 1..Len(result) : result[i].label \in SavingsKeys \/ SavingsAbsent(result[i])
        /\ Len(warnings) = Cardinality({ j \in 1..Len(rtk) : ~Parseable(rtk[j]) })

\* C9 witness: an unparseable week_start between two parseable entries, both
\* of which are merged.
C9_Witness ==
    /\ pc = "merged"
    /\ gran = "week"
    /\ Len(rtk) = 3
    /\ Parseable(rtk[1]) /\ ~Parseable(rtk[2]) /\ Parseable(rtk[3])
    /\ rtk[1].key # rtk[3].key
    /\ Len(result) = 2
    /\ \A i \in 1..Len(result) : SavingsPresent(result[i])

-----------------------------------------------------------------------------
(* Vocabulary of the aggregator's claims. *)

RECURSIVE SumNat(_)
\* Sum of the present values of a sequence of Option<integer>.
SumNat(os) ==
    IF os = << >> THEN 0
    ELSE (IF IsSome(Head(os)) THEN Unwrap(Head(os)) ELSE 0) + SumNat(Tail(os))

RECURSIVE SumF64(_)
\* Sum of the present values of a sequence of Option<f64>.
SumF64(os) ==
    IF os = << >> THEN Zero
    ELSE IF IsSome(Head(os)) THEN FAdd(Unwrap(Head(os)), SumF64(Tail(os)))
    ELSE SumF64(Tail(os))

\* C10: compute_totals returns cost, total-token, active-token, command and
\* saved-token totals equal to the sums of the field over the periods where it
\* is present; the empty list gives zeros.
C10_TotalsAreSumsOfPresentFields ==
    pc = "totals_done" =>
        /\ totals.cc_cost = SumF64([i \in 1..Len(periods) |-> periods[i].cc_cost])
        /\ totals.cc_total_tokens = SumNat([i \in 1..Len(periods) |-> periods[i].cc_total_tokens])
        /\ totals.cc_active_tokens = SumNat([i \in 1..Len(periods) |-> periods[i].cc_active_tokens])
        /\ totals.rtk_commands = SumNat([i \in 1..Len(periods) |-> periods[i].rtk_commands])
        /\ totals.rtk_saved_tokens = SumNat([i \in 1..Len(periods) |-> periods[i].rtk_saved_tokens])
        /\ periods = << >> =>
               /\ totals.cc_cost = Zero /\ totals.cc_total_tokens = 0 /\ totals.cc_active_tokens = 0
               /\ totals.rtk_commands = 0 /\ totals.rtk_saved_tokens = 0

\* C10 witness: three periods, one without spend_cost but with saved tokens,
\* one with spend_cost but without saved tokens, one with both.
C10_Witness ==
    /\ pc = "totals_done"
    /\ Len(periods) = 3
    /\ IsNone(periods[1].cc_cost) /\ IsSome(periods[1].rtk_saved_tokens)
    /\ IsSome(periods[2].cc_cost) /\ IsNone(periods[2].rtk_saved_tokens)
    /\ IsSome(periods[3].cc_cost) /\ IsSome(periods[3].rtk_saved_tokens)
    /\ totals.rtk_saved_tokens > Unwrap(periods[3].rtk_saved_tokens)


\* The periods' values of one field, in order.
Field(f) == [i \in 1..Len(periods) |-> periods[i][f]]

\* How many of a sequence of Option values are present.
CountSome(os) == Cardinality({ i \in 1..Len(os) : IsSome(os[i]) })

\* C11: the totals' avg_savings_pct is the unweighted mean of savings_pct over
\* the periods where it is present, and exactly zero when no period has one.
C11_AverageOverPresentPct ==
    pc = "totals_done" =>
        LET pcts == Field("rtk_savings_pct")
            n == CountSome(pcts)
        IN  /\ n > 0 => totals.rtk_avg_savings_pct = FDiv(SumF64(pcts), F64(n))
            /\ n = 0 => totals.rtk_avg_savings_pct = Zero

\* C11 witness: two periods with different savings_pct and one without any,
\* so that the mean over all three would differ.
C11_Witness ==
    /\ pc = "totals_done"
    /\ Len(periods) = 3
    /\ IsSome(periods[1].rtk_savings_pct)
    /\ IsNone(periods[2].rtk_savings_pct)
    /\ IsSome(periods[3].rtk_savings_pct)
    /\ periods[1].rtk_savings_pct # periods[3].rtk_savings_pct
    /\ totals.rtk_avg_savings_pct.num > 0

\* A period's own rate over the token count f: its cost divided by its tokens.
HasRate(p, f) == IsSome(p.cc_cost) /\ IsSome(p[f]) /\ Unwrap(p[f]) > 0
PeriodRate(p, f) == FDiv(Unwrap(p.cc_cost), F64(Unwrap(p[f])))

\* Two periods that both have a rate over f, with unequal token counts.
TwoUnequalVolumes(f) ==
    /\ Len(periods) = 2
    /\ HasRate(periods[1], f) /\ HasRate(periods[2], f)
    /\ periods[1][f] # periods[2][f]

\* The unweighted mean of the two periods' rates over f.
MeanOfTwoRates(f) == FDiv(FAdd(PeriodRate(periods[1], f), PeriodRate(periods[2], f)), F64(2))

\* The totals' rates and savings values are computed from the summed cost,
\* the summed token counts and the summed saved tokens.
TotalsRatesFromSums ==
    LET cost == SumF64(Field("cc_cost"))
        total == SumNat(Field("cc_total_tokens"))
        active == SumNat(Field("cc_active_tokens"))
        saved == SumNat(Field("rtk_saved_tokens"))
    IN  /\ total > 0 =>
               /\ totals.blended_cpt = Some(FDiv(cost, F64(total)))
               /\ totals.savings_blended = Some(FMul(F64(saved), FDiv(cost, F64(total))))
        /\ active > 0 =>
               /\ totals.active_cpt = Some(FDiv(cost, F64(active)))
               /\ totals.savings_active = Some(FMul(F64(saved), FDiv(cost, F64(active))))

\* C12 as stated: the totals' rates are the summed cost over the summed total
\* and active tokens, each savings value is the summed saved tokens times that
\* rate, and for (two) periods of unequal token volume each rate differs from
\* the mean of the periods' own rates.
C12_RatesDifferFromMeanWheneverVolumesDiffer ==
    pc = "totals_done" =>
        /\ TotalsRatesFromSums
        /\ TwoUnequalVolumes("cc_total_tokens") =>
               totals.blended_cpt # Some(MeanOfTwoRates("cc_total_tokens"))
        /\ TwoUnequalVolumes("cc_active_tokens") =>
               totals.active_cpt # Some(MeanOfTwoRates("cc_active_tokens"))

\* C12 amended: the rates and savings values come from the sums as stated; for
\* two periods of unequal token volume a rate differs from the mean of the two
\* periods' own rates exactly when those two rates are unequal.
C12_RatesFromSumsDifferFromMeanIffRatesDiffer ==
    pc = "totals_done" =>
        /\ TotalsRatesFromSums
        /\ TwoUnequalVolumes("cc_total_tokens") =>
               (totals.blended_cpt # Some(MeanOfTwoRates("cc_total_tokens"))
                    <=> PeriodRate(periods[1], "cc_total_tokens") # PeriodRate(periods[2], "cc_total_tokens"))
        /\ TwoUnequalVolumes("cc_active_tokens") =>
               (totals.active_cpt # Some(MeanOfTwoRates("cc_active_tokens"))
                    <=> PeriodRate(periods[1], "cc_active_tokens") # PeriodRate(periods[2], "cc_active_tokens"))

\* C12 witness: two periods of unequal volume and unequal rates, the second
\* carrying its own computed blended rate, which the totals' rate differs from.
C12_Witness ==
    /\ pc = "totals_done"
    /\ TwoUnequalVolumes("cc_total_tokens")
    /\ PeriodRate(periods[1], "cc_total_tokens") # PeriodRate(periods[2], "cc_total_tokens")
    /\ IsSome(periods[2].blended_cpt)
    /\ IsSome(totals.blended_cpt)
    /\ totals.blended_cpt # periods[2].blended_cpt
    /\ totals.blended_cpt # Some(MeanOfTwoRates("cc_total_tokens"))

\* C13: the totals' derived fields obey the dual-metric preconditions applied
\* to the aggregate: a rate is absent when its summed token count is 0, and a
\* savings value is present only if some period has savings_tokens present and
\* some period has spend_cost present.
C13_TotalsSavingsNeedContributingData ==
    pc = "totals_done" =>
        /\ SumNat(Field("cc_total_tokens")) = 0 => IsNone(totals.blended_cpt)
        /\ SumNat(Field("cc_active_tokens")) = 0 => IsNone(totals.active_cpt)
        /\ IsSome(totals.savings_blended) \/ IsSome(totals.savings_active) =>
               /\ CountSome(Field("rtk_saved_tokens")) > 0
               /\ CountSome(Field("cc_cost")) > 0

\* C14: at month granularity the record's savings_pct is
\* saved / (saved + input + output) * 100 whenever that denominator is
\* non-zero and 0 exactly when it is zero; the entry's own savings_pct is not
\* used.
C14_MonthPctFromLedgerCounts ==
    pc = "rtk_set" /\ gran = "month" =>
        LET e == rtk[1]
            den == e.saved_tokens + e.input_tokens + e.output_tokens
        IN  /\ den # 0 =>
                   period.rtk_savings_pct =
                       Some(FMul(FDiv(F64(e.saved_tokens), F64(den)), F64(100)))
            /\ period.rtk_savings_pct = Some(Zero) <=> den = 0

\* The savings entry a label's record is set from: the last one of the ledger
\* whose canonical key is the label.
LastSavingsEntry(label) ==
    LET js == { j \in 1..Len(rtk) : Parseable(rtk[j]) /\ Unwrap(CanonicalKey(rtk[j])) = label }
    IN  rtk[CHOOSE j \in js : \A k \in js : k <= j]

\* The percentage the month formula gives for the counts of a ledger entry.
MonthFormulaPct(e) ==
    LET den == e.saved_tokens + e.input_tokens + e.output_tokens
    IN  IF den = 0 THEN Zero ELSE FMul(FDiv(F64(e.saved_tokens), F64(den)), F64(100))

\* C15: at day and week granularity the merged record of a savings entry
\* carries the entry's commands, saved_tokens and precomputed savings_pct
\* unchanged (the month formula is not applied to them).
C15_DayWeekCarryLedgerValues ==
    pc = "merged" /\ gran \in {"day", "week"} =>
        \A i \in 1..Len(result) :
            result[i].label \in SavingsKeys =>
                LET e == LastSavingsEntry(result[i].label) IN
                /\ result[i].rtk_commands = Some(e.commands)
                /\ result[i].rtk_saved_tokens = Some(e.saved_tokens)
                /\ result[i].rtk_savings_pct = Some(e.savings_pct)

\* C15 witness: a weekly record carrying its entry's savings_pct where the
\* month formula gives a different percentage for the same ledger counts.
C15_Witness ==
    /\ pc = "merged"
    /\ gran = "week"
    /\ \E i \in 1..Len(result) :
           /\ result[i].label \in SavingsKeys
           /\ result[i].rtk_savings_pct = Some(LastSavingsEntry(result[i].label).savings_pct)
           /\ result[i].rtk_savings_pct # Some(MonthFormulaPct(LastSavingsEntry(result[i].label)))

\* The spend entry a label's record is set from: the last one with that key.
LastSpendEntry(label) ==
    LET js == { j \in 1..Len(Unwrap(cc)) : Unwrap(cc)[j].key = label }
    IN  Unwrap(cc)[CHOOSE j \in js : \A k \in js : k <= j]

\* The example merge: one monthly spend entry (input 1000, output 500, total
\* 1800, cost 12.34) and one monthly savings entry (commands 10, saved 5000),
\* both under the key 2026-01.
ExampleMerge ==
    /\ gran = "month"
    /\ IsSome(cc) /\ Len(Unwrap(cc)) = 1 /\ Len(rtk) = 1
    /\ Unwrap(cc)[1].key = Str_2026_01 /\ rtk[1].key = Str_2026_01
    /\ Unwrap(cc)[1].metrics.input_tokens = 1000
    /\ Unwrap(cc)[1].metrics.output_tokens = 500
    /\ Unwrap(cc)[1].metrics.total_tokens = 1800
    /\ Unwrap(cc)[1].metrics.total_cost = Rat(1234, 100)
    /\ rtk[1].commands = 10 /\ rtk[1].saved_tokens = 5000

\* C16: the merged record of a spend entry has spend_cost = total_cost,
\* spend_total_tokens = total_tokens and spend_active_tokens = input + output,
\* whatever the cache counts; the example merge returns exactly one record
\* with active 1500, total 1800, commands 10, saved 5000, blended rate
\* 12.34/1800 and active rate 12.34/1500.
C16_SpendFieldsFromMetrics ==
    pc = "merged" =>
        /\ \A i \in 1..Len(result) :
               result[i].label \in SpendKeys =>
                   LET m == LastSpendEntry(result[i].label).metrics IN
                   /\ result[i].cc_cost = Some(m.total_cost)
                   /\ result[i].cc_total_tokens = Some(m.total_tokens)
                   /\ result[i].cc_active_tokens = Some(m.input_tokens + m.output_tokens)
        /\ ExampleMerge =>
               /\ Len(result) = 1
               /\ result[1].label = Str_2026_01
               /\ result[1].cc_active_tokens = Some(1500)
               /\ result[1].cc_total_tokens = Some(1800)
               /\ result[1].rtk_commands = Some(10)
               /\ result[1].rtk_saved_tokens = Some(5000)
               /\ result[1].blended_cpt = Some(Rat(1234, 100 * 1800))
               /\ result[1].active_cpt = Some(Rat(1234, 100 * 1500))

\* C16 witness: the example merge has returned, its spend entry carrying
\* cache counts that add to neither token field.
C16_Witness ==
    /\ pc = "merged"
    /\ ExampleMerge
    /\ Unwrap(cc)[1].metrics.cache_creation_tokens + Unwrap(cc)[1].metrics.cache_read_tokens > 0
    /\ result[1].cc_active_tokens = Some(1500)

-----------------------------------------------------------------------------
(* Vocabulary of the exporters' claims. *)

\* export_json has returned Ok: the one thing printed is the document.
JsonExported == pc = "returned" /\ flags.format = "json" /\ ret = "Ok"

\* The member of the printed document under a key.
JsonMember(k) == CHOOSE m \in { stdout[1][i] : i \in 1..Len(stdout[1]) } : m.key = k

\* The periods a granularity's sources merge to.
SourcePeriods(g) == merge(g, sources[g].cc.val, sources[g].rtk.val)

\* The sections are present exactly when their granularity is asked for, each
\* holding the merge of its sources.
SectionsAsRequested ==
    /\ Len(stdout) = 1
    /\ ~JsonMember("daily").null <=> (flags.all \/ flags.daily)
    /\ ~JsonMember("weekly").null <=> (flags.all \/ flags.weekly)
    /\ ~JsonMember("monthly").null <=> (flags.all \/ flags.monthly)
    /\ ~JsonMember("daily").null => JsonMember("daily").value = SourcePeriods("day")
    /\ ~JsonMember("weekly").null => JsonMember("weekly").value = SourcePeriods("week")
    /\ ~JsonMember("monthly").null => JsonMember("monthly").value = SourcePeriods("month")

\* Every period the document shows, section after section.
ShownPeriods ==
    JsonMember("daily").value \o JsonMember("weekly").value \o JsonMember("monthly").value

\* C17 as stated: each section of the JSON export is present exactly when its
\* granularity is requested, and the totals section, when present, is the
\* aggregate of the periods shown in the export.
C17_TotalsAggregateShownPeriods ==
    JsonExported =>
        /\ SectionsAsRequested
        /\ ~JsonMember("totals").null =>
               JsonMember("totals").value = TotalsStruct(compute_totals(ShownPeriods))

\* C17 amended: each section is present exactly when its granularity is
\* requested; the totals section is present exactly when the monthly section
\* is, and is the aggregate of the monthly periods alone.
C17_TotalsAggregateMonthlyPeriods ==
    JsonExported =>
        /\ SectionsAsRequested
        /\ ~JsonMember("totals").null <=> (flags.all \/ flags.monthly)
        /\ ~JsonMember("totals").null =>
               JsonMember("totals").value =
                   TotalsStruct(compute_totals(JsonMember("monthly").value))

\* C17 witness: an export of everything whose daily and monthly sections both
\* hold periods, the totals differing from the aggregate of all of them.
C17_Witness ==
    /\ JsonExported
    /\ flags.all
    /\ Len(JsonMember("daily").value) = 2
    /\ Len(JsonMember("monthly").value) = 2
    /\ ~JsonMember("totals").null
    /\ JsonMember("totals").value # TotalsStruct(compute_totals(ShownPeriods))

RECURSIVE SplitComma(_)
\* The fields of a line: what the commas separate.
SplitComma(line) ==
    IF \A i \in 1..Len(line) : line[i] # ","
    THEN <<line>>
    ELSE LET c == CHOOSE i \in 1..Len(line) :
                      line[i] = "," /\ \A j \in 1..(i - 1) : line[j] # ","
         IN  <<SubSeq(line, 1, c - 1)>> \o SplitComma(SubSeq(line, c + 1, Len(line)))

RECURSIVE DecValue(_)
\* The number a sequence of digits writes.
DecValue(s) == IF s = << >> THEN 0 ELSE 10 * DecValue(SubSeq(s, 1, Len(s) - 1)) + DigitVal(s[Len(s)])

AllDigits(s) == s # << >> /\ \A i \in 1..Len(s) : IsDigit(s[i])

\* A field showing an optional count: empty when absent, else its decimal.
ShowsCount(field, o) ==
    IF IsNone(o) THEN field = << >>
    ELSE AllDigits(field) /\ DecValue(field) = Unwrap(o)

\* A field showing an optional amount: empty when absent, else digits, a
\* point and four decimals, within half a ten-thousandth of the amount.
ShowsAmount(field, o) ==
    IF IsNone(o) THEN field = << >>
    ELSE LET n == Len(field)
             x == Unwrap(o)
             whole == SubSeq(field, 1, n - 5)
             frac == SubSeq(field, n - 3, n)
             shown == DecValue(whole) * 10000 + DecValue(frac)
             diff == shown * x.den - x.num * 10000
         IN  /\ n >= 6 /\ field[n - 4] = "."
             /\ AllDigits(whole) /\ AllDigits(frac)
             /\ 2 * diff <= x.den /\ 2 * (0 - diff) <= x.den

\* A line is the row of a record: eight fields in the header's order.
IsRowOf(line, p) ==
    LET f == SplitComma(line) IN
    /\ Len(f) = 8
    /\ f[1] = p.label
    /\ ShowsAmount(f[2], p.cc_cost)
    /\ ShowsCount(f[3], p.cc_active_tokens)
    /\ ShowsCount(f[4], p.cc_total_tokens)
    /\ ShowsCount(f[5], p.rtk_saved_tokens)
    /\ ShowsAmount(f[6], p.savings_active)
    /\ ShowsAmount(f[7], p.savings_blended)
    /\ ShowsCount(f[8], p.rtk_commands)

\* How many rows a granularity contributes, and how many precede its group.
GroupLen(g) ==
    IF flags.all \/ (g = "day" /\ flags.daily) \/ (g = "week" /\ flags.weekly)
                 \/ (g = "month" /\ flags.monthly)
    THEN Len(SourcePeriods(g)) ELSE 0

GroupStart(g) ==
    IF g = "day" THEN 0
    ELSE IF g = "week" THEN GroupLen("day")
    ELSE GroupLen("day") + GroupLen("week")

\* The records of the requested granularities: daily, weekly, monthly.
RequestedPeriods ==
    SubSeq(SourcePeriods("day"), 1, GroupLen("day"))
    \o SubSeq(SourcePeriods("week"), 1, GroupLen("week"))
    \o SubSeq(SourcePeriods("month"), 1, GroupLen("month"))

\* The label a printed row starts with (row 1 follows the header).
RowLabel(i) == SplitComma(stdout[i + 1])[1]

\* Within each granularity's group the printed rows ascend by label.
RowsAscendWithinGroups ==
    \A g \in Grans :
        \A i \in 1..GroupLen(g) : \A j \in 1..GroupLen(g) :
            i < j => StrLess(RowLabel(GroupStart(g) + i), RowLabel(GroupStart(g) + j))

\* C18: the CSV export prints the header line first and exactly once, every
\* later line has eight fields, and once it has returned Ok the lines after
\* the header are the rows of the requested granularities' records, daily
\* then weekly then monthly, each group ascending by label, a row showing an
\* absent optional field as an empty field and never as 0.
C18_CsvHeaderThenRowsInOrder ==
    flags.format = "csv" /\ pc # "export" =>
        /\ Len(stdout) >= 1
        /\ stdout[1] = CsvHeader
        /\ \A i \in 2..Len(stdout) : stdout[i] # CsvHeader /\ Len(SplitComma(stdout[i])) = 8
        /\ Len(SplitComma(CsvHeader)) = 8
        /\ pc = "returned" /\ ret = "Ok" =>
               /\ Len(stdout) = 1 + Len(RequestedPeriods)
               /\ \A i \in 1..Len(RequestedPeriods) : IsRowOf(stdout[i + 1], RequestedPeriods[i])
               /\ RowsAscendWithinGroups

\* C18 witness: a finished export of all three granularities whose daily
\* group has a spend-only and a savings-only row and whose weekly row has
\* both sides: five rows after the header, some fields empty, some not.
C18_Witness ==
    /\ pc = "returned" /\ ret = "Ok"
    /\ flags.format = "csv"
    /\ Len(stdout) = 6
    /\ SplitComma(stdout[2])[2] = << >>
    /\ SplitComma(stdout[3])[2] # << >>
    /\ SplitComma(stdout[3])[8] = << >>
    /\ SplitComma(stdout[4])[6] # << >>

\* C19: in export_json nothing is printed unless serialization has succeeded:
\* when serializing fails the call returns that error and no part of the
\* report has been printed, and whatever is printed is printed once the call
\* returns Ok.
C19_NothingPrintedUnlessSerialized ==
    flags.format = "json" =>
        /\ ret # "Ok" => stdout = << >>
        /\ stdout # << >> => pc = "returned" /\ Len(stdout) = 1
        /\ ret = "Failed to serialize economics data to JSON" => pc = "returned"

\* C19 witness: every source answered, the monthly section and the totals
\* were stored, serialization failed and nothing was printed.
C19_Witness ==
    /\ flags.format = "json"
    /\ pc = "returned"
    /\ ret = "Failed to serialize economics data to JSON"
    /\ IsSome(export.monthly) /\ Len(Unwrap(export.monthly)) = 2
    /\ IsSome(export.totals)
    /\ stdout = << >>

\* C20: a merge is deterministic: whatever order the HashMap hands its values
\* over in, the list returned is the one list its two arguments determine, so
\* two runs on the same inputs return identical lists.
C20_MergeIndependentOfMapOrder ==
    pc = "merged" => result = merge(gran, cc, rtk)

\* C20 witness: a merge of three records, which the map may hand over in six
\* orders, has returned.
C20_Witness ==
    /\ pc = "merged"
    /\ Cardinality(DOMAIN map) = 3
    /\ Len(result) = 3
    /\ Cardinality(ValueOrders(map)) = 6

\* How many spend entries carry a key, and how many savings entries
\* normalize to it.
SpendCount(label) ==
    IF IsSome(cc) THEN Cardinality({ j \in 1..Len(Unwrap(cc)) : Unwrap(cc)[j].key = label }) ELSE 0

SavingsCount(label) ==
    Cardinality({ j \in 1..Len(rtk) : Parseable(rtk[j]) /\ Unwrap(CanonicalKey(rtk[j])) = label })

\* C22: when a canonical key occurs more than once within one source, the
\* merged record of that key holds the fields of the last such entry in input
\* order; earlier entries are overwritten, not summed.
C22_LastEntryOfRepeatedKeyWins ==
    pc = "merged" =>
        \A i \in 1..Len(result) :
            LET r == result[i] IN
            /\ SpendCount(r.label) > 1 =>
                   LET m == LastSpendEntry(r.label).metrics IN
                   /\ r.cc_cost = Some(m.total_cost)
                   /\ r.cc_total_tokens = Some(m.total_tokens)
                   /\ r.cc_active_tokens = Some(m.input_tokens + m.output_tokens)
            /\ SavingsCount(r.label) > 1 =>
                   LET e == LastSavingsEntry(r.label) IN
                   /\ r.rtk_commands = Some(e.commands)
                   /\ r.rtk_saved_tokens = Some(e.saved_tokens)
                   /\ gran # "month" => r.rtk_savings_pct = Some(e.savings_pct)

\* C22 witness: two spend entries of one key with different costs and token
\* counts, merged into one record that shows the second one's alone.
C22_Witness ==
    /\ pc = "merged"
    /\ IsSome(cc) /\ Len(Unwrap(cc)) = 2
    /\ Unwrap(cc)[1].key = Unwrap(cc)[2].key
    /\ Unwrap(cc)[1].metrics.total_cost.num > 0
    /\ Unwrap(cc)[2].metrics.total_cost.num > 0
    /\ Unwrap(cc)[1].metrics.total_cost # Unwrap(cc)[2].metrics.total_cost
    /\ \E i \in 1..Len(result) :
           /\ result[i].label = Unwrap(cc)[1].key
           /\ result[i].cc_cost = Some(Unwrap(cc)[2].metrics.total_cost)

\* C23: in every merged record the blended rate is present exactly when the
\* blended savings value is, and the active rate exactly when the active
\* savings value is; a spend-only record, even with a cost and positive token
\* counts, has no rate at all.
C23_RatePresentIffSavingsValuePresent ==
    pc = "merged" =>
        \A i \in 1..Len(result) :
            LET r == result[i] IN
            /\ IsSome(r.blended_cpt) <=> IsSome(r.savings_blended)
            /\ IsSome(r.active_cpt) <=> IsSome(r.savings_active)
            /\ SpendPresent(r) /\ SavingsAbsent(r) =>
                   IsNone(r.blended_cpt) /\ IsNone(r.active_cpt)

\* C23 witness: a spend-only record with a cost and positive token counts and
\* no rate, next to a record that has both rates and both savings values.
C23_Witness ==
    /\ pc = "merged"
    /\ \E i \in 1..Len(result) :
           /\ SpendPresent(result[i]) /\ SavingsAbsent(result[i])
           /\ Unwrap(result[i].cc_cost).num > 0
           /\ Unwrap(result[i].cc_total_tokens) > 0
           /\ Unwrap(result[i].cc_active_tokens) > 0
           /\ DerivedAbsent(result[i])
    /\ \E i \in 1..Len(result) :
           /\ IsSome(result[i].blended_cpt) /\ IsSome(result[i].savings_blended)
           /\ IsSome(result[i].active_cpt) /\ IsSome(result[i].savings_active)

\* The record of a label in a list of records.
RecordOf(ps, label) == CHOOSE r \in { ps[i] : i \in 1..Len(ps) } : r.label = label

SpendSide(r) == <<r.cc_cost, r.cc_total_tokens, r.cc_active_tokens>>

SavingsSide(r) == <<r.rtk_commands, r.rtk_saved_tokens, r.rtk_savings_pct>>

\* C24: populating one side of a record leaves the other side alone: a merged
\* record's spend fields are those of the merge of the spend collection alone
\* and its savings fields those of the merge of the savings collection alone,
\* and the map is the same when the savings entries are inserted first.
C24_SidesAreIndependent ==
    pc = "merged" =>
        /\ \A i \in 1..Len(result) :
               LET r == result[i] IN
               /\ IF r.label \in SpendKeys
                  THEN SpendSide(r) = SpendSide(RecordOf(merge(gran, cc, << >>), r.label))
                  ELSE SpendSide(r) = <<None, None, None>>
               /\ IF r.label \in SavingsKeys
                  THEN SavingsSide(r) = SavingsSide(RecordOf(merge(gran, None, rtk), r.label))
                  ELSE SavingsSide(r) = <<None, None, None>>
        /\ map = (IF IsSome(cc) THEN FoldCc(FoldRtk(gran, << >>, rtk), Unwrap(cc))
                  ELSE FoldRtk(gran, << >>, rtk))

\* C24 witness: a record whose key is in both sources, its non-zero spend
\* side standing next to its non-zero savings side.
C24_Witness ==
    /\ pc = "merged"
    /\ \E i \in 1..Len(result) :
           /\ result[i].label \in SpendKeys /\ result[i].label \in SavingsKeys
           /\ Unwrap(result[i].cc_total_tokens) > 0
           /\ Unwrap(result[i].rtk_saved_tokens) > 0
           /\ SpendSide(result[i]) = SpendSide(RecordOf(merge(gran, cc, << >>), result[i].label))

\* Every reordering of a sequence.
Reorderings(s) ==
    { [i \in 1..Len(s) |-> s[f[i]]] :
          f \in { g \in [1..Len(s) -> 1..Len(s)] : \A i, j \in 1..Len(s) : i # j => g[i] # g[j] } }

SpendReorderings == IF IsSome(cc) THEN { Some(s) : s \in Reorderings(Unwrap(cc)) } ELSE { None }

\* The spend keys are pairwise distinct.
SpendKeysDistinct ==
    IsSome(cc) => \A i, j \in 1..Len(Unwrap(cc)) : i # j => Unwrap(cc)[i].key # Unwrap(cc)[j].key

\* The savings entries' keys are pairwise distinct as they are written.
SavingsKeysDistinctAsWritten == \A i, j \in 1..Len(rtk) : i # j => rtk[i].key # rtk[j].key

\* The savings entries' keys are pairwise distinct once normalized.
SavingsKeysDistinctNormalized ==
    \A i, j \in 1..Len(rtk) :
        i # j /\ Parseable(rtk[i]) /\ Parseable(rtk[j]) => CanonicalKey(rtk[i]) # CanonicalKey(rtk[j])

\* Every reordering of the two collections merges to the list returned.
EveryOrderMergesToResult ==
    \A c \in SpendReorderings : \A r \in Reorderings(rtk) : merge(gran, c, r) = result

\* C25 as stated: when the keys within each source are pairwise distinct,
\* every permutation of the spend entries and of the savings entries yields
\* the same sorted record list.
C25_OrderIrrelevantForDistinctKeys ==
    pc = "merged" /\ SpendKeysDistinct /\ SavingsKeysDistinctAsWritten => EveryOrderMergesToResult

\* C25 amended: the same, when the savings keys are pairwise distinct after
\* normalization (two week_start texts of the same date count as one key).
C25_OrderIrrelevantForDistinctNormalizedKeys ==
    pc = "merged" /\ SpendKeysDistinct /\ SavingsKeysDistinctNormalized => EveryOrderMergesToResult

\* C25 witness: two spend entries given in descending key order and a
\* savings entry under a third key, merged into three records.
C25_Witness ==
    /\ pc = "merged"
    /\ IsSome(cc) /\ Len(Unwrap(cc)) = 2 /\ Len(rtk) = 1
    /\ StrLess(Unwrap(cc)[2].key, Unwrap(cc)[1].key)
    /\ SavingsKeysDistinctNormalized
    /\ Len(result) = 3
    /\ result[1].label # Unwrap(cc)[1].key

\* The ledgers' own sums: the spend entries' cost, total and active tokens,
\* the savings entries' commands and saved tokens.
SpendEntries == IF IsSome(cc) THEN Unwrap(cc) ELSE << >>

LedgerSums ==
    [ cc_cost |-> SumF64([i \in 1..Len(SpendEntries) |-> Some(SpendEntries[i].metrics.total_cost)]),
      cc_total_tokens |-> SumNat([i \in 1..Len(SpendEntries) |-> Some(SpendEntries[i].metrics.total_tokens)]),
      cc_active_tokens |->
          SumNat([i \in 1..Len(SpendEntries) |->
                      Some(SpendEntries[i].metrics.input_tokens + SpendEntries[i].metrics.output_tokens)]),
      rtk_commands |-> SumNat([i \in 1..Len(rtk) |-> Some(rtk[i].commands)]),
      rtk_saved_tokens |-> SumNat([i \in 1..Len(rtk) |-> Some(rtk[i].saved_tokens)]) ]

\* The totals of the merged list have the ledgers' sums.
TotalsConserveLedgers ==
    LET t == compute_totals(result) IN
    \A f \in DOMAIN LedgerSums : t[f] = LedgerSums[f]

AllParseable == \A i \in 1..Len(rtk) : Parseable(rtk[i])

\* C26 as stated: when the keys within each source are distinct and, for
\* weeks, parseable, the totals of the merged list have the spend entries'
\* summed cost, total and active tokens and the savings entries' summed
\* commands and saved tokens, whether or not the two sources share a key.
C26_TotalsConserveLedgersForDistinctKeys ==
    pc = "merged" /\ SpendKeysDistinct /\ SavingsKeysDistinctAsWritten /\ AllParseable =>
        TotalsConserveLedgers

\* C26 amended: the same, when the savings keys are distinct after
\* normalization.
C26_TotalsConserveLedgersForDistinctNormalizedKeys ==
    pc = "merged" /\ SpendKeysDistinct /\ SavingsKeysDistinctNormalized /\ AllParseable =>
        TotalsConserveLedgers

\* C26 witness: a weekly merge of a spend week and two savings weeks, one
\* normalizing to the spend week's key and one to a key of its own, whose
\* commands and saved tokens all reach the totals.
C26_Witness ==
    /\ pc = "merged"
    /\ gran = "week"
    /\ SpendKeysDistinct /\ SavingsKeysDistinctNormalized /\ AllParseable
    /\ Len(SpendEntries) = 1 /\ Len(rtk) = 2
    /\ \E i \in 1..2 : Unwrap(CanonicalKey(rtk[i])) \in SpendKeys
    /\ \E i \in 1..2 : Unwrap(CanonicalKey(rtk[i])) \notin SpendKeys
    /\ rtk[1].commands > 0 /\ rtk[2].commands > 0
    /\ Len(result) = 2
    /\ compute_totals(result).rtk_commands = rtk[1].commands + rtk[2].commands
-----------------------------------------------------------------------------
(* C28 *)

RECURSIVE CallsFor(_)
\* The collaborator calls of the requested granularities among gs, in order.
CallsFor(gs) ==
    IF gs = << >> THEN << >>
    ELSE (IF Requested(Head(gs)) THEN << <<"fetch", Head(gs)>>, <<"read", Head(gs)>> >> ELSE << >>)
         \o CallsFor(Tail(gs))

ExpectedCalls == CallsFor(<<"day", "week", "month">>)

CallFailed(c) ==
    IF c[1] = "fetch" THEN ~sources[c[2]].cc.ok ELSE ~sources[c[2]].rtk.ok

FetchOrReadError == ret \in {"Failed to fetch ccusage data", "Failed to load token savings"}

\* C28: the JSON export is all-or-nothing.  The calls made so far are a
\* prefix of: spend fetch then savings read, for daily, weekly, monthly, the
\* requested ones only; no call but the last one made has failed, and when
\* the last one has failed the invocation has returned that error; a
\* returned fetch or read error comes with an empty output; and the output is
\* at most one document, present only when every requested call has been made
\* and has succeeded.
C28_JsonExportIsAllOrNothing ==
    flags.format = "json" /\ pc \in {"export", "section", "read_rtk", "merge_section",
                                      "serialize", "returned"} =>
        /\ Len(calls) <= Len(ExpectedCalls)
        /\ calls = SubSeq(ExpectedCalls, 1, Len(calls))
        /\ \A i \in 1..Len(calls) :
               CallFailed(calls[i]) =>
                   /\ i = Len(calls)
                   /\ pc = "returned"
                   /\ ret = IF calls[i][1] = "fetch" THEN "Failed to fetch ccusage data"
                            ELSE "Failed to load token savings"
        /\ FetchOrReadError => stdout = << >> /\ CallFailed(calls[Len(calls)])
        /\ Len(stdout) <= 1
        /\ stdout # << >> =>
               /\ calls = ExpectedCalls
               /\ \A i \in 1..Len(calls) : ~CallFailed(calls[i])
               /\ pc = "returned"

\* A later granularity fails after an earlier section was fetched, read and
\* merged: nothing has been printed.
C28_Witness ==
    /\ flags.format = "json"
    /\ pc = "returned"
    /\ Len(calls) >= 3
    /\ CallFailed(calls[Len(calls)])
    /\ IsSome(export.daily)
    /\ Unwrap(export.daily) # << >>
    /\ stdout = << >>
    /\ FetchOrReadError

-----------------------------------------------------------------------------
(* C29 *)

\* The invocation walks the sections of export_csv or of display_text.
SectionMode ==
    \/ flags.format = "csv"
    \/ flags.format # "json" /\ (flags.daily \/ flags.weekly \/ flags.monthly \/ flags.all)

\* The granularities that precede g.
Before(g) == IF g = "day" THEN << >> ELSE IF g = "week" THEN <<"day">> ELSE <<"day", "week">>

\* The complete output of granularity g, both of whose sources answered.
SectionOutput(g) ==
    IF ~Requested(g) THEN << >>
    ELSE LET ps == merge(g, sources[g].cc.val, sources[g].rtk.val)
         IN  IF flags.format = "csv" THEN CsvRows(ps) ELSE DisplaySection(g, ps)

RECURSIVE OutputOf(_)
OutputOf(gs) == IF gs = << >> THEN << >> ELSE SectionOutput(Head(gs)) \o OutputOf(Tail(gs))

HeaderOutput == IF flags.format = "csv" THEN <<CsvHeader>> ELSE << >>

\* C29: the CSV export and the sectioned text display emit granularity by
\* granularity.  While the sections are walked, what has been emitted is the
\* header (CSV only) followed by the complete output of the granularities
\* before the current one; a failed fetch or read ends the invocation at once
\* with an error and exactly that output, nothing of the failing or of a
\* later granularity; a successful invocation has emitted every requested
\* granularity.
C29_OutputStopsAtTheFailingGranularity ==
    SectionMode /\ pc \in {"section", "read_rtk", "merge_section", "returned"}
                /\ sources["tracker"].ok =>
        /\ calls # << >> /\ CallFailed(calls[Len(calls)]) =>
               /\ pc = "returned"
               /\ FetchOrReadError
               /\ gran = calls[Len(calls)][2]
        /\ FetchOrReadError => calls # << >> /\ CallFailed(calls[Len(calls)])
        /\ IF pc = "returned" /\ ~FetchOrReadError
           THEN ret = "Ok" /\ stdout = HeaderOutput \o OutputOf(<<"day", "week", "month">>)
           ELSE stdout = HeaderOutput \o OutputOf(Before(gran))

\* The weekly or monthly section of the text display fails after the table
\* of an earlier granularity, with at least one row, was printed.
C29_Witness ==
    /\ flags.format = "text"
    /\ SectionMode
    /\ pc = "returned"
    /\ FetchOrReadError
    /\ \E i \in 1..Len(stdout) : stdout[i].kind = "row"
    /\ stdout = OutputOf(Before(gran))

-----------------------------------------------------------------------------
(* C30 *)

NoFlag == ~flags.daily /\ ~flags.weekly /\ ~flags.monthly /\ ~flags.all

\* The table of granularity g in the text display, shown or not.
SectionText(g, shown) ==
    IF shown THEN DisplaySection(g, merge(g, sources[g].cc.val, sources[g].rtk.val)) ELSE << >>

\* The rows of granularity g in the CSV export, shown or not.
SectionCsv(g, shown) ==
    IF shown THEN CsvRows(merge(g, sources[g].cc.val, sources[g].rtk.val)) ELSE << >>

\* The sections of a successful text display for the three flags.
TextSections(d, w, m) == SectionText("day", d) \o SectionText("week", w) \o SectionText("month", m)

\* The beginning of the summary of the monthly merge, or the message when
\* that merge is empty.
SummaryStart ==
    LET ps == merge("month", sources["month"].cc.val, sources["month"].rtk.val)
    IN  IF ps = << >> THEN <<NoDataLine>> ELSE SummaryHead(compute_totals(ps))

IsPrefix(s, t) == Len(s) <= Len(t) /\ s = SubSeq(t, 1, Len(s))

SummaryKinds == {"summary_title", "message", "spent", "active_tokens", "total_tokens",
                 "rtk_commands", "tokens_saved", "box_top", "active_pricing",
                 "blended_pricing", "box_bottom", "why_two_numbers", "cache_reads"}

SectionKinds == {"title", "table_header", "table_rule", "row"}

\* C30: run opens the tracker first; a tracker that fails to open gives the
\* error, no call and no output.  "json" reaches export_json, "csv"
\* export_csv, every other format display_text.  A successful JSON run has
\* printed its one document, a successful CSV run the header and the
\* requested rows.  A successful text run with no flag has printed the
\* summary of the monthly merge (or the no-data message) and no section, and
\* has asked the monthly sources only; with a flag it has printed the
\* sections of daily, weekly, monthly in that order, selected by
\* `all || flag`, and no summary line.
C30_RunDispatchesOnFormatAndFlags ==
    /\ pc \in {"export", "serialize"} => flags.format \in {"json", "csv"}
    /\ pc \in {"text", "summary_fetch", "summary_read", "summary_show"} =>
           flags.format \notin {"json", "csv"}
    /\ pc \in {"summary_fetch", "summary_read", "summary_show"} => NoFlag
    /\ ~sources["tracker"].ok =>
           /\ calls = << >> /\ stdout = << >> /\ export = << >>
           /\ pc \in {"run", "returned"}
           /\ pc = "returned" => ret = "Failed to initialize tracking database"
    /\ sources["tracker"].ok /\ pc = "returned" /\ ret = "Ok" =>
           IF flags.format = "json" THEN stdout = <<to_string_pretty(export)>>
           ELSE IF flags.format = "csv"
           THEN stdout = <<CsvHeader>>
                         \o SectionCsv("day", flags.all \/ flags.daily)
                         \o SectionCsv("week", flags.all \/ flags.weekly)
                         \o SectionCsv("month", flags.all \/ flags.monthly)
           ELSE IF NoFlag
           THEN /\ IsPrefix(SummaryStart, stdout)
                /\ \A i \in 1..Len(stdout) : stdout[i].kind \notin SectionKinds
                /\ calls = << <<"fetch", "month">>, <<"read", "month">> >>
           ELSE /\ stdout = TextSections(flags.all \/ flags.daily, flags.all \/ flags.weekly,
                                         flags.all \/ flags.monthly)
                /\ flags.all => stdout = TextSections(TRUE, TRUE, TRUE)
                /\ \A i \in 1..Len(stdout) : stdout[i].kind \notin SummaryKinds
                /\ calls = ExpectedCalls

\* A format that is neither "json", "csv" nor "text", with no flag: the
\* summary of a non-empty monthly merge was printed.
C30_Witness ==
    /\ flags.format = OtherFormat
    /\ NoFlag
    /\ pc = "returned"
    /\ ret = "Ok"
    /\ Len(stdout) > 1
    /\ stdout[1].kind = "summary_title"
    /\ calls = << <<"fetch", "month">>, <<"read", "month">> >>

-----------------------------------------------------------------------------
(* C27 *)

PanicOnSubtract == "panicked: attempt to subtract with overflow"

\* Both monthly sources answered and display_summary went on with them.
SummaryMerged ==
    /\ Len(calls) = 2
    /\ pc \in {"summary_show", "returned"}
    /\ sources["month"].cc.ok /\ sources["month"].rtk.ok

\* C27: in the Totals that display_summary computes from the monthly merge
\* the summed total tokens are at least the summed active tokens, so that
\* `totals.cc_total_tokens - totals.cc_active_tokens` neither panics nor
\* wraps, whatever the spend ledger, periods with total_tokens below
\* input_tokens + output_tokens included.
C27_TotalTokensCoverActiveTokens ==
    /\ SummaryMerged =>
           LET t == compute_totals(merge("month", cc, rtk))
           IN  t.cc_total_tokens >= t.cc_active_tokens
    /\ ret # PanicOnSubtract
    /\ \A i \in 1..Len(stdout) :
           stdout[i].kind = "cache_reads" => stdout[i].body[1] # "2^64"

-----------------------------------------------------------------------------
(* C21 *)

\* The part of its savings ledger the merge of granularity g has gone through.
RtkDone(g) ==
    IF pc[g] = "merge_cc" THEN << >>
    ELSE IF pc[g] = "merge_rtk" THEN SubSeq(rtk[g], 1, idx[g])
    ELSE rtk[g]

\* The part of its spend collection the merge of granularity g has gone through.
CcDone(g) ==
    IF pc[g] = "merge_cc" /\ IsSome(cc[g]) THEN Some(SubSeq(Unwrap(cc[g]), 1, idx[g]))
    ELSE cc[g]

\* The labels the inputs of granularity g can give rise to.
OwnLabels(g) ==
    (IF IsSome(cc[g]) THEN { Unwrap(cc[g])[i].key : i \in 1..Len(Unwrap(cc[g])) } ELSE {})
    \cup { Unwrap(RtkKey(g, rtk[g][i])) :
               i \in { j \in 1..Len(rtk[g]) : IsSome(RtkKey(g, rtk[g][j])) } }

\* C21: the three merges share no state.  In every interleaving of their
\* steps the map of each holds exactly what its own inputs, as far as it has
\* gone through them, put there; each finished merge has the result it has
\* when run alone on its inputs; and no record of one merge bears a label
\* that comes from another merge's inputs.
C21_InterleavedMergesAreIndependent ==
    \A g \in Grans :
        /\ map[g] = MergedMap(g, CcDone(g), RtkDone(g))
        /\ pc[g] = "merged" => result[g] = merge(g, cc[g], rtk[g])
        /\ pc[g] \in {"metrics", "sort", "merged"} =>
               /\ Len(result[g]) = Cardinality(OwnLabels(g))
               /\ \A i \in 1..Len(result[g]) : result[g][i].label \in OwnLabels(g)

\* The three merges are under way at different steps: the daily one has
\* inserted its spend entry, the weekly one is about to sort its one
\* record, which has both sides,
\* the monthly one has inserted its savings entry after its spend entry.
C21_Witness ==
    /\ pc["day"] = "merge_cc" /\ idx["day"] = 1
    /\ pc["week"] = "sort" /\ Len(result["week"]) = 1
    /\ IsSome(result["week"][1].cc_cost) /\ IsSome(result["week"][1].rtk_commands)
    /\ pc["month"] = "merge_rtk" /\ idx["month"] = 1 /\ IsSome(cc["month"])
    /\ Len(rtk["day"]) = 1

====
